---- MODULE Spec2Model ----
(***************************************************************************)
(* Model of the EBS Home backend: the booking endpoints (create, update,   *)
(* cancel, delete), the booking service and repository they call, the      *)
(* Booking model and the date-range validator; the login and its device    *)
(* binding; the exit checklists; the reminder scheduler and the            *)
(* notification it sends; the maintenance requests.                        *)
(*                                                                         *)
(* Python values are modelled with their run-time type, because the code   *)
(* mixes datetime.date objects and ISO strings: a value is a record        *)
(* [py |-> "str" | "date", day |-> n].  A call's outcome is a record       *)
(* [exc |-> "none" | <exception class>, val |-> <returned value>].         *)
(***************************************************************************)
EXTENDS Integers, Sequences, FiniteSets, TLC

\* ------------------------------------------------------------------ bounds
\* Calendar days are 0..MaxDay; the store holds at most MaxBookings documents;
\* date.today() starts at 0 and advances up to MaxToday.
MaxDay == 3
MaxBookings == 2
MaxToday == 1

\* validate_date_range's default max_days, and the literal 30 of
\* BookingService.create_booking and Booking.validate.
MAX_DAYS == 30

Days == 0 .. MaxDay
\* Request-handling threads; each carries one authenticated user (current_user).
Threads == {"t1", "t2"}
Users == {"u1", "u2"}
\* a user id that no document of the users collection has
UnknownUser == "nobody"
UserOf(t) == IF t = "t1" THEN "u1" ELSE "u2"
\* The display name a login of firebase uid u carries (user_info['name']): the
\* name get_or_create_user gives the user it creates.
NameOf(u) == IF u = "u1" THEN "Alice" ELSE "Bob"

VARIABLES
    bookings,   \* the Firestore 'bookings' collection: sequence of documents, document id = index
    pending,    \* per thread: the create_booking call that passed its conflict check and has not written yet
    today,      \* date.today()
    last,       \* the response of the most recently completed endpoint call, or the result of a direct call of a service method
    call,       \* a direct call of a function of the code: its arguments and its result
    users,      \* the Firestore 'users' collection: document id -> document
    logins,     \* per thread: the login request in progress and the step it has reached
    clock,      \* datetime.utcnow(), counted in device writes
    checklists, \* the Firestore 'exit_checklists' collection: sequence of documents, id = index
    requests,   \* per thread: the add-entry or submit request in progress and the step it has reached
    running,    \* SchedulerService.running
    loops,      \* the threads SchedulerService.start has created, each with the step of _run_scheduler it is at
    scan,       \* the most recent run of SchedulerService._check_exit_reminders: who ran it, what it sent
    maintenance \* the Firestore 'maintenance_requests' collection: sequence of documents, id = index

vars == <<bookings, pending, today, last, call, users, logins, clock, checklists, requests,
          running, loops, scan, maintenance>>
\* The scheduler and the maintenance requests.
schedulerVars == <<running, loops, scan, maintenance>>
\* What only the checklist endpoints touch, too.
otherVars == <<schedulerVars, requests>>
\* What the booking endpoints leave alone.
rest == <<users, logins, clock, checklists, otherVars>>

\* ------------------------------------------------------------ python values
Str(d) == [py |-> "str", day |-> d]
Date(d) == [py |-> "date", day |-> d]
\* A string that is no ISO date ('invalid-date').
BadStr == [py |-> "str", day |-> -1]

\* None passed where a date string is expected.
NoStr == [py |-> "none", day |-> 0 - 1]
\* The empty string ''.
EmptyStr == [py |-> "str", day |-> 0 - 2]
\* not x, for x a str, a date or None: true of None and of ''.
Falsy(x) == x.py = "none" \/ x = EmptyStr

\* A str that is no date, written as the sequence of its characters, and None
\* where a str is optional.
PyStr(chars) == [py |-> "str", chars |-> chars]
PyNone == [py |-> "none", chars |-> <<>>]

\* The characters str.strip() removes: those for which str.isspace() is true.
\* A character without an escape in this notation is written by its code point.
Whitespace ==
    {" ", "\t", "\n", "\r", "\f", "U+000B", "U+001C", "U+001D", "U+001E", "U+001F",
     "U+0085", "U+00A0", "U+1680", "U+2000", "U+2001", "U+2002", "U+2003", "U+2004",
     "U+2005", "U+2006", "U+2007", "U+2008", "U+2009", "U+200A", "U+2028", "U+2029",
     "U+202F", "U+205F", "U+3000"}

\* str.strip(), on a string written as the sequence of its characters
RECURSIVE lstrip(_)
lstrip(s) == IF s # <<>> /\ Head(s) \in Whitespace THEN lstrip(Tail(s)) ELSE s
RECURSIVE rstrip(_)
rstrip(s) == IF s # <<>> /\ s[Len(s)] \in Whitespace THEN rstrip(SubSeq(s, 1, Len(s) - 1)) ELSE s
strip(s) == rstrip(lstrip(s))

Ok(v) == [exc |-> "none", val |-> v]
Raise(e) == [exc |-> e, val |-> FALSE]

\* date.fromisoformat: TypeError unless the argument is a str, ValueError when
\* the string is no ISO date.
fromisoformat(s) ==
    IF s.py # "str" THEN Raise("TypeError")
    ELSE IF s.day < 0 THEN Raise("ValueError")
    ELSE Ok(Date(s.day))

\* date.isoformat
isoformat(d) == Str(d.day)

\* Python's a <= b and a >= b: defined between two dates and between two
\* strings (ISO strings order as their dates), TypeError between a date and a str.
PyLe(a, b) == IF a.py = b.py THEN Ok(a.day <= b.day) ELSE Raise("TypeError")
PyGe(a, b) == IF a.py = b.py THEN Ok(a.day >= b.day) ELSE Raise("TypeError")

\* ------------------------------------------------------- utils/validators.py
\* validate_date_range with the past-date test written start_date <= today.
validate_date_range_today_refused(start_date, end_date, max_days, now) ==
    IF start_date.day >= end_date.day THEN "End date must be after start date"
    ELSE IF start_date.day <= now THEN "Start date cannot be in the past"
    ELSE IF end_date.day - start_date.day > max_days THEN "Date range cannot exceed max_days days"
    ELSE "ok"

\* validate_date_range(start_date, end_date, max_days) with date.today() = now:
\* "ok" for True, otherwise the message of the ValidationError it raises.
validate_date_range(start_date, end_date, max_days, now) ==
    IF start_date.day >= end_date.day THEN "End date must be after start date"
    ELSE IF start_date.day < now THEN "Start date cannot be in the past"
    ELSE IF end_date.day - start_date.day > max_days THEN "Date range cannot exceed max_days days"
    ELSE "ok"

\* --------------------------------------------------------- models/booking.py
NoId == 0

\* Booking.__init__ followed by the defaults BookingRepository.create_booking sets.
Booking(user_id, user_name, start_date, end_date, notes) ==
    [id |-> NoId, user_id |-> user_id, user_name |-> user_name,
     start_date |-> start_date, end_date |-> end_date, notes |-> notes,
     is_cancelled |-> FALSE, exit_checklist_completed |-> FALSE,
     exit_checklist_id |-> NoId, reminder_sent |-> FALSE]

\* Booking.to_dict: the dates are written as ISO strings; the dictionary has no
\* 'id' key.
to_dict(b) ==
    [f \in DOMAIN b \ {"id"} |->
        IF f = "start_date" THEN isoformat(b.start_date)
        ELSE IF f = "end_date" THEN isoformat(b.end_date)
        ELSE b[f]]

\* Booking.from_dict: the dates are parsed with date.fromisoformat, which raises
\* when the stored field is not an ISO string.
from_dict(data) ==
    LET s == fromisoformat(data.start_date)
        e == fromisoformat(data.end_date)
    IN  IF s.exc # "none" THEN Raise(s.exc)
        ELSE IF e.exc # "none" THEN Raise(e.exc)
        ELSE Ok([data EXCEPT !.start_date = s.val, !.end_date = e.val])

\* Booking.validate without any of its checks.
BookingValidateNothing(b, now) == "ok"

\* Booking.validate with date.today() = now: "ok" or the ValueError's message.
BookingValidate(b, now) ==
    IF b.start_date.day >= b.end_date.day THEN "End date must be after start date"
    ELSE IF b.start_date.day < now THEN "Cannot create booking in the past"
    ELSE IF b.end_date.day - b.start_date.day > MAX_DAYS THEN "Booking cannot exceed 30 days"
    ELSE "ok"

\* overlaps_with without its test of the cancelled flags.
overlaps_with_cancelled_too(self, other_booking) ==
    ~(self.end_date.day < other_booking.start_date.day
      \/ self.start_date.day > other_booking.end_date.day)

\* Booking.overlaps_with
overlaps_with(self, other_booking) ==
    IF self.is_cancelled \/ other_booking.is_cancelled THEN FALSE
    ELSE ~(self.end_date.day < other_booking.start_date.day
           \/ self.start_date.day > other_booking.end_date.day)

\* ---------------------------------------- repositories/booking_repository.py
\* doc_data['id'] = doc_ref.id of BaseRepository.create, and data['id'] = doc.id
\* of the reads.
WithId(doc_data, doc_id) ==
    [f \in DOMAIN doc_data \cup {"id"} |-> IF f = "id" THEN doc_id ELSE doc_data[f]]

\* The query with its filter written is_cancelled == True.
RECURSIVE QueryIdsCancelledOnly(_, _, _)
QueryIdsCancelledOnly(store, exclude_booking_id, i) ==
    IF i > Len(store) THEN <<>>
    ELSE IF store[i].is_cancelled
            /\ (exclude_booking_id = NoId \/ store[i].id # exclude_booking_id)
         THEN <<i>> \o QueryIdsCancelledOnly(store, exclude_booking_id, i + 1)
         ELSE QueryIdsCancelledOnly(store, exclude_booking_id, i + 1)

\* The ids of the documents the query of get_conflicting_bookings streams, in
\* document order: is_cancelled == False and, with an exclude id, id != exclude.
RECURSIVE QueryIds(_, _, _)
QueryIds(store, exclude_booking_id, i) ==
    IF i > Len(store) THEN <<>>
    ELSE IF ~store[i].is_cancelled
            /\ (exclude_booking_id = NoId \/ store[i].id # exclude_booking_id)
         THEN <<i>> \o QueryIds(store, exclude_booking_id, i + 1)
         ELSE QueryIds(store, exclude_booking_id, i + 1)

\* The loop of get_conflicting_bookings over the streamed documents: each is
\* parsed with Booking.from_dict (dates become date objects) and compared with
\* the start_date and end_date arguments as they were passed.
RECURSIVE ConflictLoop(_, _, _, _, _)
ConflictLoop(store, ids, start_date, end_date, conflicting_bookings) ==
    IF ids = <<>> THEN Ok(conflicting_bookings)
    ELSE
      LET booking == from_dict(WithId(store[Head(ids)], Head(ids))) IN
      IF booking.exc # "none" THEN Raise(booking.exc)
      ELSE
        LET c1 == PyLe(booking.val.start_date, end_date) IN
        IF c1.exc # "none" THEN Raise(c1.exc)
        ELSE IF ~c1.val
          THEN ConflictLoop(store, Tail(ids), start_date, end_date, conflicting_bookings)
        ELSE
          LET c2 == PyGe(booking.val.end_date, start_date) IN
          IF c2.exc # "none" THEN Raise(c2.exc)
          ELSE IF c2.val
            THEN ConflictLoop(store, Tail(ids), start_date, end_date,
                              Append(conflicting_bookings, booking.val))
            ELSE ConflictLoop(store, Tail(ids), start_date, end_date, conflicting_bookings)

\* BookingRepository.get_conflicting_bookings
get_conflicting_bookings(store, start_date, end_date, exclude_booking_id) ==
    ConflictLoop(store, QueryIds(store, exclude_booking_id, 1), start_date, end_date, <<>>)

\* BaseRepository.get_by_id for the bookings collection: None (NoId) when the
\* document does not exist, else Booking.from_dict of the document's dictionary
\* with data['id'] set to the document id.
get_by_id(store, doc_id) ==
    IF doc_id \notin 1 .. Len(store) THEN Ok([id |-> NoId])
    ELSE from_dict(WithId(store[doc_id], doc_id))

\* BookingRepository.create_booking with date.today() = now: a date given as a
\* str is parsed, any other value is taken as it is; the booking built from
\* booking_data is validated by BaseRepository.create and written under a fresh
\* document id.  val is the store after the call.
repo_create_booking(store, booking_data, now) ==
    LET s == IF booking_data.start_date.py = "str"
               THEN fromisoformat(booking_data.start_date) ELSE Ok(booking_data.start_date)
        e == IF booking_data.end_date.py = "str"
               THEN fromisoformat(booking_data.end_date) ELSE Ok(booking_data.end_date)
    IN  IF s.exc # "none" THEN Raise(s.exc)
        ELSE IF e.exc # "none" THEN Raise(e.exc)
        ELSE
          LET booking == Booking(booking_data.user_id, booking_data.user_name,
                                 s.val, e.val, booking_data.notes)
          IN  IF BookingValidate(booking, now) # "ok" THEN Raise("ValueError")
              ELSE Ok(Append(store, WithId(to_dict(booking), Len(store) + 1)))

\* cancel_booking written as a toggle of the flag.
repo_cancel_booking_toggle(store, booking_id) ==
    [store EXCEPT ![booking_id].is_cancelled = ~store[booking_id].is_cancelled]

\* BookingRepository.cancel_booking: BaseRepository.update of is_cancelled.
repo_cancel_booking(store, booking_id) ==
    [store EXCEPT ![booking_id].is_cancelled = TRUE]

\* BaseRepository.update as BookingRepository.update_booking calls it: the given
\* fields of the document are overwritten with the values passed.
repo_update_booking(store, booking_id, updates) ==
    [store EXCEPT ![booking_id] =
        [f \in DOMAIN store[booking_id] |->
            IF f \in DOMAIN updates THEN updates[f] ELSE store[booking_id][f]]]

\* ------------------------------------------------ services/booking_service.py
\* current_device = None
NoDevice == [device_id |-> "", last_login |-> 0 - 1, is_active |-> FALSE]
\* no user document: what a read answers None with
NoUser == [id |-> "", firebase_uid |-> "", name |-> "", current_device |-> NoDevice,
           device_history |-> <<>>]
\* f"{conflict.user_name} ({conflict.start_date} - {conflict.end_date})" for
\* each conflict, in the order get_conflicting_bookings returned them.
conflict_details(conflicts) ==
    [i \in 1 .. Len(conflicts) |->
        [user_name |-> conflicts[i].user_name,
         start_date |-> conflicts[i].start_date.day,
         end_date |-> conflicts[i].end_date.day]]

Outcome(exc, msg, details, data) ==
    [exc |-> exc, msg |-> msg, details |-> details, booking_data |-> data]
NoData == [user_id |-> "", user_name |-> "", start_date |-> BadStr, end_date |-> BadStr,
           notes |-> PyStr(<<>>)]

\* BookingService.create_booking up to the repository write (lines 38-101), with
\* date.today() = now and userStore the users collection: the exception it
\* raises, or "none" and the booking_data it goes on to write.  None and '' are
\* refused as missing; a date object is truthy and has no strip (lines 41-44).
\* The user is read from the users collection, and whatever that block raises
\* is replaced by one ValueError (lines 67-74).  An exception of the conflict
\* query is re-raised when it is a ValueError or a ConflictError and replaced
\* by a plain Exception otherwise (lines 88-92).
create_booking_check(store, userStore, now, user_id, start_date, end_date, notes) ==
    LET s == fromisoformat(start_date)
        e == fromisoformat(end_date)
    IN
    IF user_id = ""
      THEN Outcome("ValueError", "User ID is required", <<>>, NoData)
    ELSE IF Falsy(start_date)
      THEN Outcome("ValueError", "Start date is required", <<>>, NoData)
    ELSE IF start_date.py # "str"
      THEN Outcome("AttributeError", "'datetime.date' object has no attribute 'strip'", <<>>, NoData)
    ELSE IF Falsy(end_date)
      THEN Outcome("ValueError", "End date is required", <<>>, NoData)
    ELSE IF end_date.py # "str"
      THEN Outcome("AttributeError", "'datetime.date' object has no attribute 'strip'", <<>>, NoData)
    ELSE IF s.exc # "none" \/ e.exc # "none"
      THEN Outcome("ValueError", "Invalid date format. Use YYYY-MM-DD", <<>>, NoData)
    ELSE IF s.val.day >= e.val.day
      THEN Outcome("ValueError", "End date must be after start date", <<>>, NoData)
    ELSE IF s.val.day < now
      THEN Outcome("ValueError", "Cannot create bookings for past dates", <<>>, NoData)
    ELSE IF e.val.day - s.val.day > MAX_DAYS
      THEN Outcome("ValueError", "Booking duration cannot exceed 30 days", <<>>, NoData)
    ELSE IF user_id \notin DOMAIN userStore \/ userStore[user_id] = NoUser
      THEN Outcome("ValueError", "Failed to validate user", <<>>, NoData)
    ELSE
      LET conflicts == get_conflicting_bookings(store, isoformat(s.val), isoformat(e.val), NoId) IN
      IF conflicts.exc = "ValueError"
        THEN Outcome("ValueError", "Invalid isoformat string", <<>>, NoData)
      ELSE IF conflicts.exc # "none"
        THEN Outcome("Exception", "Failed to check booking availability", <<>>, NoData)
      ELSE IF conflicts.val # <<>>
        THEN Outcome("ConflictError", "Booking conflicts with existing bookings",
                     conflict_details(conflicts.val), NoData)
      ELSE Outcome("none", "", <<>>,
                   [user_id |-> user_id, user_name |-> userStore[user_id].name,
                    start_date |-> start_date, end_date |-> end_date,
                    notes |-> IF notes.py = "str" /\ notes.chars # <<>>
                                THEN PyStr(strip(notes.chars)) ELSE PyStr(<<>>)])

\* BookingService.create_booking with the booking written before the
\* availability of the dates is checked.
create_booking_write_first(store, userStore, now, user_id, start_date, end_date, notes) ==
    LET r == create_booking_check(<<>>, userStore, now, user_id, start_date, end_date, notes) IN
    IF r.exc # "none" THEN [exc |-> r.exc, msg |-> r.msg, store |-> store, val |-> NoId]
    ELSE
      LET w == repo_create_booking(store, r.booking_data, now) IN
      IF w.exc # "none" THEN [exc |-> "Exception", msg |-> "Failed to create booking", store |-> store, val |-> NoId]
      ELSE
        LET c == create_booking_check(store, userStore, now, user_id, start_date, end_date, notes) IN
        IF c.exc # "none" THEN [exc |-> c.exc, msg |-> c.msg, store |-> w.val, val |-> NoId]
        ELSE [exc |-> "none", msg |-> "", store |-> w.val,
            val |-> Len(w.val)]

\* BookingService.create_booking, start to end: the checks, then the one write
\* (line 105), whose exception is replaced by a plain Exception (lines
\* 108-110).  store is the bookings collection after the call, val the id
\* returned.
create_booking(store, userStore, now, user_id, start_date, end_date, notes) ==
    LET r == create_booking_check(store, userStore, now, user_id, start_date, end_date, notes) IN
    IF r.exc # "none" THEN [exc |-> r.exc, msg |-> r.msg, store |-> store, val |-> NoId]
    ELSE
      LET w == repo_create_booking(store, r.booking_data, now) IN
      IF w.exc # "none" THEN [exc |-> "Exception", msg |-> "Failed to create booking", store |-> store, val |-> NoId]
      ELSE [exc |-> "none", msg |-> "", store |-> w.val,
            val |-> Len(w.val)]

\* BookingService.cancel_booking: the repository update, then the booking read
\* back.  store is the store after the call, val the returned booking.
service_cancel_booking(store, booking_id) ==
    LET after == repo_cancel_booking(store, booking_id)
        got == get_by_id(after, booking_id)
    IN  [exc |-> got.exc, val |-> got.val, store |-> after]

\* ------------------------------------------------------------ api/booking.py
Response(status, err, store, body) ==
    [status |-> status, err |-> err, store |-> store, body |-> body]
NoBody == [id |-> NoId]
\* status of a create_booking request that passed every check and has yet to write
Passed == 0

\* POST /bookings up to the repository write, with userStore the users
\* collection: the error response, or Passed with the booking_data to write in
\* body.  validate_request_data refuses a body without start_date or end_date
\* (lines 71-75); fromisoformat refuses '' and any other string that is no date.
api_create_check(store, userStore, now, current_user, start_date, end_date, notes) ==
    LET s == fromisoformat(start_date)
        e == fromisoformat(end_date)
    IN
    IF start_date.py # "str" \/ end_date.py # "str"
      THEN Response(400, "ValidationError", store, NoBody)
    ELSE IF s.exc # "none" \/ e.exc # "none" THEN Response(400, "ValueError", store, NoBody)
    ELSE IF validate_date_range(s.val, e.val, MAX_DAYS, now) # "ok"
      THEN Response(400, "ValidationError", store, NoBody)
    ELSE
      LET r == create_booking_check(store, userStore, now, current_user,
                                    isoformat(s.val), isoformat(e.val), notes) IN
      IF r.exc \in {"ValueError", "ConflictError"} THEN Response(400, r.exc, store, NoBody)
      ELSE IF r.exc # "none" THEN Response(500, r.exc, store, NoBody)
      ELSE Response(Passed, "none", store, r.booking_data)

\* The write made conditional on the store holding no intersecting booking.
api_create_write_if_free(store, now, booking_data) ==
    IF \E i \in 1 .. Len(store) :
          /\ ~store[i].is_cancelled
          /\ store[i].start_date.day <= booking_data.end_date.day
          /\ booking_data.start_date.day <= store[i].end_date.day
      THEN Response(400, "ConflictError", store, NoBody)
    ELSE
      LET w == repo_create_booking(store, booking_data, now) IN
      IF w.exc # "none" THEN Response(500, "Exception", store, NoBody)
      ELSE Response(201, "none", w.val, to_dict(w.val[Len(w.val)]))

\* The write with the document stored before Booking.validate is run.
api_create_write_then_validate(store, now, booking_data) ==
    LET booking == Booking(booking_data.user_id, booking_data.user_name,
                           booking_data.start_date, booking_data.end_date, booking_data.notes)
        written == Append(store, WithId(to_dict(booking), Len(store) + 1))
    IN  IF BookingValidate(booking, now) # "ok" THEN Response(500, "Exception", written, NoBody)
        ELSE Response(201, "none", written, to_dict(booking))

\* POST /bookings from the repository write on (service lines 103-110, endpoint
\* lines 94-106).
api_create_write(store, now, booking_data) ==
    LET w == repo_create_booking(store, booking_data, now) IN
    IF w.exc # "none" THEN Response(500, "Exception", store, NoBody)
    ELSE
      LET booking == get_by_id(w.val, Len(w.val)) IN
      IF booking.exc # "none" THEN Response(500, booking.exc, w.val, NoBody)
      ELSE Response(201, "none", w.val, to_dict(booking.val))

\* POST /bookings/<id>/cancel
api_cancel_booking(store, current_user, booking_id) ==
    LET booking == get_by_id(store, booking_id) IN
    IF booking.exc # "none" THEN Response(500, booking.exc, store, NoBody)
    ELSE IF booking.val.id = NoId THEN Response(500, "AttributeError", store, NoBody)
    ELSE IF booking.val.user_id # current_user THEN Response(403, "Permission denied", store, NoBody)
    ELSE
      LET c == service_cancel_booking(store, booking_id) IN
      IF c.exc # "none" THEN Response(500, c.exc, c.store, NoBody)
      ELSE Response(200, "none", c.store, to_dict(c.val))

\* DELETE /bookings/<id> calling BaseRepository.delete on the document.
api_delete_booking_hard(store, current_user, booking_id) ==
    LET booking == get_by_id(store, booking_id) IN
    IF booking.exc # "none" THEN Response(500, booking.exc, store, NoBody)
    ELSE IF booking.val.id = NoId THEN Response(500, "AttributeError", store, NoBody)
    ELSE IF booking.val.user_id # current_user THEN Response(403, "Permission denied", store, NoBody)
    ELSE Response(200, "none",
                  [j \in 1 .. Len(store) - 1 |-> IF j < booking_id THEN store[j] ELSE store[j + 1]],
                  NoBody)

\* DELETE /bookings/<id>: the same calls; the response carries no booking.
api_delete_booking(store, current_user, booking_id) ==
    LET booking == get_by_id(store, booking_id) IN
    IF booking.exc # "none" THEN Response(500, booking.exc, store, NoBody)
    ELSE IF booking.val.id = NoId THEN Response(500, "AttributeError", store, NoBody)
    ELSE IF booking.val.user_id # current_user THEN Response(403, "Permission denied", store, NoBody)
    ELSE
      LET c == service_cancel_booking(store, booking_id) IN
      IF c.exc # "none" THEN Response(500, c.exc, c.store, NoBody)
      ELSE Response(200, "none", c.store, NoBody)

\* A request body of PUT /bookings/<id>: each of start_date, end_date and notes
\* is a string or is left out.
Absent == [py |-> "absent", day |-> -1]
AbsentNotes == [py |-> "absent", chars |-> <<>>]
PresentFields(data) ==
    (IF data.start_date # Absent THEN {"start_date"} ELSE {})
    \cup (IF data.end_date # Absent THEN {"end_date"} ELSE {})
    \cup (IF data.notes # AbsentNotes THEN {"notes"} ELSE {})

\* PUT /bookings/<id> with date.today() = now.  The updates dictionary carries
\* the parsed dates as date objects; store_takes_dates says whether the
\* document store's update accepts a datetime.date value (it then stores the
\* value as given) or raises TypeError for it.
api_update_booking(store, now, current_user, booking_id, data, store_takes_dates) ==
    LET booking == get_by_id(store, booking_id) IN
    \* a ValueError of the read is answered by the first handler (line 169)
    IF booking.exc = "ValueError" THEN Response(400, "ValueError", store, NoBody)
    ELSE IF booking.exc # "none" THEN Response(500, booking.exc, store, NoBody)
    ELSE IF booking.val.id = NoId THEN Response(500, "AttributeError", store, NoBody)
    ELSE IF booking.val.user_id # current_user THEN Response(403, "Permission denied", store, NoBody)
    ELSE
      LET present == PresentFields(data)
          s == IF "start_date" \in present THEN fromisoformat(data.start_date) ELSE Ok(Absent)
          e == IF "end_date" \in present THEN fromisoformat(data.end_date) ELSE Ok(Absent)
      IN
      IF s.exc # "none" \/ e.exc # "none" THEN Response(400, "ValueError", store, NoBody)
      ELSE
        LET updates == [f \in present |->
                          IF f = "start_date" THEN s.val
                          ELSE IF f = "end_date" THEN e.val
                          ELSE data.notes]
            dated == "start_date" \in present \/ "end_date" \in present
            new_start == IF "start_date" \in present THEN s.val ELSE booking.val.start_date
            new_end == IF "end_date" \in present THEN e.val ELSE booking.val.end_date
        IN
        \* ValidationError is no ValueError: it falls to the generic handler.
        IF dated /\ validate_date_range(new_start, new_end, MAX_DAYS, now) # "ok"
          THEN Response(500, "ValidationError", store, NoBody)
        \* no conflict check is made (line 159)
        ELSE IF dated /\ ~store_takes_dates
          THEN Response(500, "TypeError", store, NoBody)
        \* update_booking returned True, and True has no to_dict
        ELSE Response(500, "AttributeError", repo_update_booking(store, booking_id, updates), NoBody)

\* ------------------------------------------------------------ models/user.py
MaxLogins == 3
DeviceIds == {"d1", "d2"}
\* The ids Firestore gives the documents of the users collection.  An id is
\* generated when the document is created; a document of firebase uid "u1" gets
\* "u1" or "v1", one of firebase uid "u2" gets "u2" or "v2".
UserDocIds == {"u1", "u2", "v1", "v2"}
DocIdsOf(firebase_uid) == IF firebase_uid = "u1" THEN {"u1", "v1"} ELSE {"u2", "v2"}
\* The order in which a query without order_by streams the documents: by id.
UserDocOrder == <<"u1", "u2", "v1", "v2">>

\* UserDevice.from_dict and UserDevice.to_dict, on the fields a device carries
\* (device_name and platform travel with device_id).
UserDevice_from_dict(data) ==
    [device_id |-> data.device_id, last_login |-> data.last_login, is_active |-> data.is_active]
UserDevice_to_dict(d) ==
    [device_id |-> d.device_id, last_login |-> d.last_login, is_active |-> d.is_active]

\* User.from_dict: current_device is converted when the document has one.
User_from_dict(data) ==
    [id |-> data.id,
     firebase_uid |-> data.firebase_uid,
     name |-> data.name,
     current_device |-> IF data.current_device # NoDevice
                          THEN UserDevice_from_dict(data.current_device) ELSE NoDevice,
     device_history |-> [i \in 1 .. Len(data.device_history) |->
                            UserDevice_from_dict(data.device_history[i])]]

\* can_login_from_device answering True for every device.
can_login_from_any_device(user, device_id) == TRUE

\* User.can_login_from_device
can_login_from_device(user, device_id) ==
    IF user.current_device = NoDevice THEN TRUE
    ELSE user.current_device.device_id = device_id

\* User.set_device: the current device, marked inactive, moves to the history.
set_device(user, device) ==
    [user EXCEPT
        !.device_history = IF user.current_device # NoDevice
                             THEN Append(user.device_history,
                                         [user.current_device EXCEPT !.is_active = FALSE])
                             ELSE user.device_history,
        !.current_device = device]

\* ------------------------------------------------- services/auth_service.py
\* verify_device answering True whatever device is bound.
verify_device_always(user, device_id) == TRUE

\* AuthService.verify_device
verify_device(user, device_id) ==
    IF user.current_device = NoDevice THEN TRUE
    ELSE can_login_from_device(user, device_id)

\* ------------------------------------------------- services/user_service.py
\* UserRepository.get_by_firebase_uid: the first document the query
\* firebase_uid == uid streams (limit=1), or None.
RECURSIVE FirstOfUid(_, _, _)
FirstOfUid(store, firebase_uid, i) ==
    IF i > Len(UserDocOrder) THEN NoUser
    ELSE IF store[UserDocOrder[i]] # NoUser /\ store[UserDocOrder[i]].firebase_uid = firebase_uid
      THEN User_from_dict(store[UserDocOrder[i]])
    ELSE FirstOfUid(store, firebase_uid, i + 1)
get_by_firebase_uid(store, firebase_uid) == FirstOfUid(store, firebase_uid, 1)

\* get_or_create_user, lines 38-50: the User built for a firebase uid that has
\* no document; it has no id yet.
NewUser(firebase_uid) ==
    [id |-> "", firebase_uid |-> firebase_uid, name |-> NameOf(firebase_uid),
     current_device |-> NoDevice, device_history |-> <<>>]

\* get_or_create_user, lines 53-55: user_repository.create writes the document
\* under the generated id doc_id and the id is set on the user.
create_user(store, user, doc_id) ==
    LET created == [user EXCEPT !.id = doc_id]
    IN  [store |-> [store EXCEPT ![doc_id] = created], user |-> created]

\* get_or_create_user run without interruption: the user of that firebase uid,
\* created without a device under the id doc_id when the lookup finds none.
\* store is the collection after the call.
get_or_create_user(store, firebase_uid, doc_id) ==
    LET existing_user == get_by_firebase_uid(store, firebase_uid) IN
    IF existing_user # NoUser THEN [store |-> store, user |-> existing_user]
    ELSE create_user(store, NewUser(firebase_uid), doc_id)

\* update_user_device, line 92: user_repository.get_by_id
user_get_by_id(store, user_id) ==
    IF store[user_id] = NoUser THEN NoUser ELSE User_from_dict(store[user_id])

\* The write of update_user_device with the history replaced by the new device.
update_user_device_write_fresh(store, user, device_id, now) ==
    LET device_data == [device_id |-> device_id, last_login |-> now, is_active |-> TRUE] IN
    [store EXCEPT ![user.id].current_device = device_data,
                  ![user.id].device_history = <<device_data>>]

\* The write of update_user_device appending to the history as stored now.
update_user_device_write_stored(store, user, device_id, now) ==
    LET device_data == [device_id |-> device_id, last_login |-> now, is_active |-> TRUE] IN
    [store EXCEPT ![user.id].current_device = device_data,
                  ![user.id].device_history = Append(store[user.id].device_history, device_data)]

\* update_user_device, lines 96-127, for the user read at line 92: device_data
\* becomes current_device, and device_history is the history that was read,
\* converted to dictionaries, with device_data appended.
update_user_device_write(store, user, device_id, now) ==
    LET device_data == [device_id |-> device_id, last_login |-> now, is_active |-> TRUE]
        device_history == [i \in 1 .. Len(user.device_history) |->
                              UserDevice_to_dict(user.device_history[i])]
    IN  [store EXCEPT ![user.id].current_device = device_data,
                      ![user.id].device_history = Append(device_history, device_data)]

\* UserService.update_user_device run without interruption.
update_user_device(store, user_id, device_id, now) ==
    LET user == user_get_by_id(store, user_id) IN
    IF user = NoUser THEN store
    ELSE update_user_device_write(store, user, device_id, now)

\* What a caller passes to update_user_preferences: a dictionary that clears
\* the current device, and one with a preference the model does not track.
PreferenceUpdates == {[current_device |-> NoDevice], [language |-> "he"]}

\* UserService.update_user_preferences: BaseRepository.update writes the
\* fields of the dictionary into the user document, whatever they are;
\* Firestore's update raises NotFound when the document is missing.
update_user_preferences(store, user_id, preferences) ==
    IF store[user_id] = NoUser THEN [result |-> "NotFound", store |-> store]
    ELSE [result |-> "ok",
          store |-> [store EXCEPT ![user_id] =
                        [f \in DOMAIN store[user_id] |->
                            IF f \in DOMAIN preferences THEN preferences[f]
                            ELSE store[user_id][f]]]]

\* ------------------------------------------------ api/auth.py, api/user.py
\* POST /auth/login run without interruption, for a valid token of firebase_uid;
\* doc_id is the id Firestore generates if the user is created.
api_login(store, firebase_uid, device_id, now, doc_id) ==
    LET got == get_or_create_user(store, firebase_uid, doc_id) IN
    IF ~verify_device(got.user, device_id)
      THEN [status |-> 403, store |-> got.store]
    ELSE [status |-> 200, store |-> update_user_device(got.store, got.user.id, device_id, now)]

\* POST /users/devices/reset: UserService has no reset_user_device, the call
\* raises AttributeError and the endpoint answers 500.
api_reset_device(store, current_user) ==
    [status |-> 500, store |-> store]

\* -------------------------------------------------------- models/checklist.py
MaxEntries == 4
REQUIRED_CATEGORIES == <<"refrigerator", "freezer", "closet">>
PhotoTypes == {"refrigerator", "freezer", "closet", "general"}

\* ChecklistPhoto.from_dict and to_dict, on the fields validate reads
ChecklistPhoto_from_dict(data) == [photo_type |-> data.photo_type, notes |-> data.notes]
ChecklistPhoto_to_dict(photo) == [photo_type |-> photo.photo_type, notes |-> photo.notes]

Valid == [exc |-> "none", msg |-> "", category |-> ""]
Invalid(msg, category) == [exc |-> "ValueError", msg |-> msg, category |-> category]

\* The first loop of ExitChecklist.validate from entry i on, with the set of
\* categories collected so far: the ValueError of the first required-category
\* entry whose notes are short, else the categories that have entries.
RECURSIVE ValidateEntries(_, _, _)
ValidateEntries(photos, i, categories_with_entries) ==
    IF i > Len(photos) THEN [exc |-> "none", categories |-> categories_with_entries]
    ELSE LET entry == photos[i] IN
         IF entry.photo_type = "general"
           THEN ValidateEntries(photos, i + 1,
                    IF entry.notes # <<>> /\ Len(strip(entry.notes)) > 0
                      THEN categories_with_entries \cup {entry.photo_type}
                      ELSE categories_with_entries)
         ELSE IF entry.notes = <<>> \/ Len(strip(entry.notes)) < 5
           THEN [exc |-> "ValueError", categories |-> {entry.photo_type}]
         ELSE ValidateEntries(photos, i + 1, categories_with_entries \cup {entry.photo_type})

\* The second loop: the first required category, in the order of
\* REQUIRED_CATEGORIES, that has no entry; "" when none is missing.
RECURSIVE FirstMissing(_, _)
FirstMissing(categories_with_entries, k) ==
    IF k > Len(REQUIRED_CATEGORIES) THEN ""
    ELSE IF REQUIRED_CATEGORIES[k] \notin categories_with_entries THEN REQUIRED_CATEGORIES[k]
    ELSE FirstMissing(categories_with_entries, k + 1)

\* validate with the length of the notes taken before trimming.
RECURSIVE ValidateEntriesUntrimmed(_, _, _)
ValidateEntriesUntrimmed(photos, i, categories_with_entries) ==
    IF i > Len(photos) THEN [exc |-> "none", categories |-> categories_with_entries]
    ELSE LET entry == photos[i] IN
         IF entry.photo_type = "general"
           THEN ValidateEntriesUntrimmed(photos, i + 1, categories_with_entries)
         ELSE IF Len(entry.notes) < 5
           THEN [exc |-> "ValueError", categories |-> {entry.photo_type}]
         ELSE ValidateEntriesUntrimmed(photos, i + 1, categories_with_entries \cup {entry.photo_type})
ExitChecklist_validate_untrimmed(photos) ==
    IF Len(photos) = 0 THEN Valid
    ELSE LET entries == ValidateEntriesUntrimmed(photos, 1, {}) IN
         IF entries.exc # "none"
           THEN Invalid("Notes must be at least 5 characters for",
                        CHOOSE c \in entries.categories : TRUE)
         ELSE LET missing == FirstMissing(entries.categories, 1) IN
              IF missing # "" THEN Invalid("Missing required entry for", missing)
              ELSE Valid

\* ExitChecklist.validate on the entries of a checklist
ExitChecklist_validate(photos) ==
    IF Len(photos) = 0 THEN Valid
    ELSE LET entries == ValidateEntries(photos, 1, {}) IN
         IF entries.exc # "none"
           THEN Invalid("Notes must be at least 5 characters for",
                        CHOOSE c \in entries.categories : TRUE)
         ELSE LET missing == FirstMissing(entries.categories, 1) IN
              IF missing # "" THEN Invalid("Missing required entry for", missing)
              ELSE Valid

\* ExitChecklist.from_dict
ExitChecklist_from_dict(data) ==
    [data EXCEPT !.photos = [i \in 1 .. Len(data.photos) |-> ChecklistPhoto_from_dict(data.photos[i])]]

\* ------------------------------- repositories/booking_repository.py (checklist link)
\* mark_exit_checklist_completed with the flag written and the checklist id left out.
mark_exit_checklist_completed_unlinked(store, booking_id, checklist_id) ==
    IF booking_id \notin 1 .. Len(store) THEN Raise("NotFound")
    ELSE Ok([store EXCEPT ![booking_id].exit_checklist_completed = TRUE])

\* BookingRepository.mark_exit_checklist_completed: BaseRepository.update of the
\* two fields; Firestore's update raises NotFound when the document is missing.
mark_exit_checklist_completed(store, booking_id, checklist_id) ==
    IF booking_id \notin 1 .. Len(store) THEN Raise("NotFound")
    ELSE Ok([store EXCEPT ![booking_id].exit_checklist_completed = TRUE,
                          ![booking_id].exit_checklist_id = checklist_id])

\* ------------------------------------------- services/checklist_service.py
\* ExitChecklist.__init__: submitted_at and important_notes start as None.
NoTime == -1
NoNotes == "None"

\* Each call returns what the service returned, "ok" (an id or True), "False"
\* or the exception raised, the checklist collection after it and, for a
\* submission, the bookings collection after it.
Returned(result, store) == [result |-> result, store |-> store]

\* ChecklistService.create_checklist: the user must exist and so must the
\* booking when one is named (booking_id NoId stands for None); the checklist
\* is written with no entries and is_complete False.
create_checklist(store, userStore, bookingStore, user_id, booking_id) ==
    IF user_id \notin DOMAIN userStore \/ userStore[user_id] = NoUser
      THEN Returned("ValueError", store)
    ELSE IF booking_id # NoId /\ get_by_id(bookingStore, booking_id).exc # "none"
      THEN Returned(get_by_id(bookingStore, booking_id).exc, store)
    ELSE IF booking_id # NoId /\ get_by_id(bookingStore, booking_id).val.id = NoId
      THEN Returned("ValueError", store)
    ELSE IF ExitChecklist_validate(<<>>).exc # "none" THEN Returned("ValueError", store)
    ELSE Returned("ok", Append(store, [id |-> Len(store) + 1, user_id |-> user_id,
                                        booking_id |-> booking_id,
                                        photos |-> <<>>, is_complete |-> FALSE,
                                        submitted_at |-> NoTime,
                                        important_notes |-> NoNotes]))

\* What get_checklist_by_id answers for a document that does not exist: None.
NoChecklist == [id |-> NoId, user_id |-> "", booking_id |-> NoId, photos |-> <<>>,
                is_complete |-> FALSE, submitted_at |-> NoTime, important_notes |-> NoNotes]

\* ChecklistRepository.get_checklist_by_id: the document as an ExitChecklist, or None.
get_checklist_by_id(store, checklist_id) ==
    IF checklist_id \notin 1 .. Len(store) THEN NoChecklist
    ELSE ExitChecklist_from_dict(store[checklist_id])

\* The update of add_photo_to_checklist writing the document of a freshly
\* built checklist, whose is_complete is False and submitted_at None.
add_photo_to_checklist_write_reopens(store, checklist, photo_data) ==
    LET photos_data == [i \in 1 .. Len(checklist.photos) |->
                           ChecklistPhoto_to_dict(checklist.photos[i])]
    IN  [store EXCEPT ![checklist.id].photos = Append(photos_data, photo_data),
                      ![checklist.id].is_complete = FALSE,
                      ![checklist.id].submitted_at = NoTime]

\* ChecklistRepository.add_photo_to_checklist, lines 142-158, for the
\* checklist read at line 138: the update writes the whole photos list, the
\* entries that were read, converted, plus the new one.
add_photo_to_checklist_write(store, checklist, photo_data) ==
    LET photos_data == [i \in 1 .. Len(checklist.photos) |->
                           ChecklistPhoto_to_dict(checklist.photos[i])]
    IN  [store EXCEPT ![checklist.id].photos = Append(photos_data, photo_data)]

\* ChecklistRepository.add_photo_to_checklist run without interruption.
add_photo_to_checklist(store, checklist_id, photo_data) ==
    LET checklist == get_checklist_by_id(store, checklist_id) IN
    IF checklist = NoChecklist THEN Returned("False", store)
    ELSE Returned("ok", add_photo_to_checklist_write(store, checklist, photo_data))

\* ChecklistService.add_entry_to_checklist run without interruption: the
\* checklist is read, entry_data is built and the repository adds it.
add_entry_to_checklist(store, checklist_id, photo_type, notes) ==
    LET checklist == get_checklist_by_id(store, checklist_id)
        entry_data == [photo_type |-> photo_type, notes |-> notes]
    IN  IF checklist = NoChecklist THEN Returned("False", store)
        ELSE add_photo_to_checklist(store, checklist_id, entry_data)

\* ChecklistRepository.submit_checklist: BaseRepository.update of is_complete
\* and submitted_at.
repo_submit_checklist(store, checklist_id, now) ==
    [store EXCEPT ![checklist_id].is_complete = TRUE, ![checklist_id].submitted_at = now]

\* submit_checklist, lines 136-144: False for a checklist that does not exist,
\* the ValueError of validate, else the submission goes on.
submit_checklist_check(checklist) ==
    IF checklist = NoChecklist THEN "False"
    ELSE IF ExitChecklist_validate(checklist.photos).exc # "none" THEN "ValueError"
    ELSE "ok"

\* submit_checklist, lines 149-158: the booking the checklist names is marked;
\* a failure of that write is swallowed.
submit_checklist_mark(bookingStore, checklist) ==
    LET marked == IF checklist.booking_id # NoId
                    THEN mark_exit_checklist_completed(bookingStore, checklist.booking_id, checklist.id)
                    ELSE Ok(bookingStore)
    IN  IF marked.exc = "none" THEN marked.val ELSE bookingStore

\* The two writes of submit_checklist, lines 147-158: the checklist, then the
\* booking it names.
submit_checklist_writes(store, bookingStore, checklist, now) ==
    [result |-> "ok", store |-> repo_submit_checklist(store, checklist.id, now),
     bookings |-> submit_checklist_mark(bookingStore, checklist)]

\* submit_checklist with validation after the writes: the failure is still
\* raised, the writes stay.
submit_checklist_write_first(store, bookingStore, checklist_id, now) ==
    LET checklist == get_checklist_by_id(store, checklist_id) IN
    IF checklist = NoChecklist
      THEN [result |-> "False", store |-> store, bookings |-> bookingStore]
    ELSE [submit_checklist_writes(store, bookingStore, checklist, now)
             EXCEPT !.result = submit_checklist_check(checklist)]

\* ChecklistService.submit_checklist run without interruption.
submit_checklist(store, bookingStore, checklist_id, now) ==
    LET checklist == get_checklist_by_id(store, checklist_id) IN
    IF submit_checklist_check(checklist) # "ok"
      THEN [result |-> submit_checklist_check(checklist), store |-> store,
            bookings |-> bookingStore]
    ELSE submit_checklist_writes(store, bookingStore, checklist, now)

\* ChecklistService.update_checklist as the important-notes endpoint calls it:
\* BaseRepository.update of important_notes, NotFound for a missing document.
update_checklist(store, checklist_id, important_notes) ==
    IF checklist_id \notin 1 .. Len(store) THEN Returned("NotFound", store)
    ELSE Returned("ok", [store EXCEPT ![checklist_id].important_notes = important_notes])

\* ------------------------------------------- services/notification_service.py
\* What the calls made by send_exit_reminder can do.  The user lookup returns
\* a user with or without a push token, returns None, or raises
\* (UserRepository defines no get_user_by_id, so the lookup of the deployed
\* service raises AttributeError); messaging.send delivers or raises; the
\* real-time service is not injected ("none"), or its broadcast returns True,
\* returns False or raises.
NoUserFound == [found |-> FALSE, fcm_token |-> FALSE]
LookupOutcomes ==
    {Ok([found |-> TRUE, fcm_token |-> TRUE]), Ok([found |-> TRUE, fcm_token |-> FALSE]),
     Ok(NoUserFound), Raise("AttributeError")}
SendOutcomes == {"sent", "InvalidArgumentError", "UnregisteredError", "Exception"}
RealtimeOutcomes == {"none", "True", "False", "Exception"}

\* NotificationService._send_fcm_notification: True when messaging.send
\* returned, False for each exception it raises.
_send_fcm_notification(send) == send = "sent"

\* send_exit_reminder without its try block.
send_exit_reminder_propagates(lookup, send, realtime) ==
    IF lookup.exc # "none" THEN Raise(lookup.exc)
    ELSE IF realtime = "Exception" THEN Raise("Exception")
    ELSE LET user == lookup.val
             fcm_sent == IF user.found /\ user.fcm_token THEN _send_fcm_notification(send) ELSE FALSE
             realtime_sent == realtime = "True"
         IN  Ok(fcm_sent \/ realtime_sent)

\* NotificationService.send_exit_reminder: any exception of the body is caught
\* and answered False.
send_exit_reminder(lookup, send, realtime) ==
    IF lookup.exc # "none" THEN Ok(FALSE)
    ELSE IF realtime = "Exception" THEN Ok(FALSE)
    ELSE LET user == lookup.val
             fcm_sent == IF user.found /\ user.fcm_token THEN _send_fcm_notification(send) ELSE FALSE
             realtime_sent == realtime = "True"
         IN  Ok(fcm_sent \/ realtime_sent)

\* ---------------------------------------------- services/scheduler_service.py
\* SchedulerService._send_exit_reminder: whatever send_exit_reminder does, the
\* method returns; val tells whether the reminder was delivered.
_send_exit_reminder(lookup, send, realtime) ==
    LET success == send_exit_reminder(lookup, send, realtime) IN
    Ok(success.exc = "none" /\ success.val)

\* datetime.fromisoformat(x).date() and datetime.strptime(x, '%Y-%m-%d').date():
\* TypeError unless x is a str, ValueError when the string is no date.
datetime_fromisoformat(x) ==
    IF x.py # "str" THEN Raise("TypeError")
    ELSE IF x.day < 0 THEN Raise("ValueError")
    ELSE Ok(Date(x.day))
datetime_strptime(x) ==
    IF x.py # "str" THEN Raise("TypeError")
    ELSE IF x.day < 0 THEN Raise("ValueError")
    ELSE Ok(Date(x.day))

\* The documents of the query of BookingRepository.get_bookings, ordered by
\* start_date ascending (then by document id).
RECURSIVE OrderedIds(_, _)
OrderedIds(store, remaining) ==
    IF remaining = {} THEN <<>>
    ELSE LET first == CHOOSE i \in remaining : \A j \in remaining :
                          \/ store[i].start_date.day < store[j].start_date.day
                          \/ (store[i].start_date.day = store[j].start_date.day /\ i <= j)
         IN  <<first>> \o OrderedIds(store, remaining \ {first})

\* BookingRepository.get_bookings: Booking.from_dict of every document; an
\* exception of the read (read # "ok") or of from_dict ends the call.
RECURSIVE FromDictAll(_, _, _, _)
FromDictAll(store, ids, i, results) ==
    IF i > Len(ids) THEN Ok(results)
    ELSE LET b == from_dict(WithId(store[ids[i]], ids[i])) IN
         IF b.exc # "none" THEN Raise(b.exc)
         ELSE FromDictAll(store, ids, i + 1, Append(results, b.val))
get_bookings(store, read) ==
    IF read # "ok" THEN Raise(read)
    ELSE FromDictAll(store, OrderedIds(store, 1 .. Len(store)), 1, <<>>)

\* The parse of lines 74-78: fromisoformat, and strptime when that raised ValueError.
ParseEndDate(x) ==
    LET first == datetime_fromisoformat(x) IN
    IF first.exc = "ValueError" THEN datetime_strptime(x) ELSE first

\* What one run of _check_exit_reminders did: the bookings it called
\* _send_exit_reminder for, in order, and the exception its except clause
\* caught ("none" when the loop ran to its end).
Scanned(sent, error) == [sent |-> sent, error |-> error]

\* The for loop of _check_exit_reminders, lines 69-86, from the i-th booking on.
RECURSIVE ScanLoop(_, _, _, _)
ScanLoop(all_bookings, i, now, sent) ==
    IF i > Len(all_bookings) THEN Scanned(sent, "none")
    ELSE LET booking == all_bookings[i] IN
         IF booking.is_cancelled THEN ScanLoop(all_bookings, i + 1, now, sent)
         ELSE LET end_date == ParseEndDate(booking.end_date) IN
              IF end_date.exc # "none" THEN Scanned(sent, end_date.exc)
              ELSE IF end_date.val.day = now /\ ~booking.exit_checklist_completed
                THEN LET r == _send_exit_reminder(Raise("AttributeError"), "sent", "none") IN
                     IF r.exc # "none" THEN Scanned(Append(sent, booking.id), r.exc)
                     ELSE ScanLoop(all_bookings, i + 1, now, Append(sent, booking.id))
              ELSE ScanLoop(all_bookings, i + 1, now, sent)

\* SchedulerService._check_exit_reminders with date.today() = now.
_check_exit_reminders(store, now, read) ==
    LET all_bookings == get_bookings(store, read) IN
    IF all_bookings.exc # "none" THEN Scanned(<<>>, all_bookings.exc)
    ELSE ScanLoop(all_bookings.val, 1, now, <<>>)

\* A thread running _run_scheduler: at the while test ("check"), inside the
\* try block about to scan ("scan"), in time.sleep ("sleep", with its length in
\* seconds), or returned ("done").
LoopAt(pc, seconds) == [pc |-> pc, seconds |-> seconds]

\* _run_scheduler leaving the loop when the scan met an error.
_run_scheduler_after_scan_gives_up(scanned) ==
    IF scanned.error # "none" THEN LoopAt("done", 0) ELSE LoopAt("sleep", 3600)

\* _run_scheduler, lines 47-58, after the scan: _check_exit_reminders catches
\* its own exceptions and returns, so the thread sleeps for an hour.
_run_scheduler_after_scan(scanned) == LoopAt("sleep", 3600)

\* _run_scheduler, line 46: the while test.
_run_scheduler_while(is_running) == IF is_running THEN LoopAt("scan", 0) ELSE LoopAt("done", 0)

\* SchedulerService.start: nothing when running, else the flag is set and a
\* new thread is started.
start(is_running, threads) ==
    IF is_running THEN [running |-> is_running, loops |-> threads]
    ELSE [running |-> TRUE, loops |-> Append(threads, LoopAt("check", 0))]

\* SchedulerService.stop: nothing when not running, else the flag is cleared;
\* thread.join(timeout=5) then returns whether or not the thread has ended.
stop(is_running, threads) == [running |-> FALSE, loops |-> threads]

\* ------------------- services/maintenance_service.py, repositories/maintenance_repository.py
None == "None"
\* A description of ten characters and one of four once trimmed.
LongDescription == <<"t", "a", "p", " ", "l", "e", "a", "k", "e", "d">>
ShortDescription == <<" ", "l", "e", "a", "k", " ">>
Location == <<"k", "i", "t", "c", "h", "e", "n">>

\* MaintenanceService.create_maintenance_request and the repository's
\* create_maintenance_request: the description and the location are checked
\* trimmed, the user must exist, the request is written with status pending.
create_maintenance_request(store, userStore, user_id, description, location) ==
    IF user_id = "" THEN Returned("ValueError", store)
    ELSE IF Len(strip(description)) < 10 THEN Returned("ValueError", store)
    ELSE IF Len(strip(location)) < 2 THEN Returned("ValueError", store)
    ELSE IF user_id \notin DOMAIN userStore \/ userStore[user_id] = NoUser
      THEN Returned("ValueError", store)
    ELSE Returned("ok", Append(store, [id |-> Len(store) + 1, reporter_id |-> user_id,
                                        description |-> strip(description),
                                        status |-> "pending", assigned_to_id |-> None,
                                        resolution_notes |-> None, completed_by_id |-> None,
                                        reopen_reason |-> None]))

\* MaintenanceService.assign_maintenance_request: False when the assignee does
\* not exist, else BaseRepository.update of the assignee and the status.
assign_maintenance_request(store, userStore, request_id, assigned_to_id) ==
    IF assigned_to_id \notin DOMAIN userStore \/ userStore[assigned_to_id] = NoUser
      THEN Returned("False", store)
    ELSE IF request_id \notin 1 .. Len(store) THEN Returned("NotFound", store)
    ELSE Returned("ok", [store EXCEPT ![request_id].assigned_to_id = assigned_to_id,
                                      ![request_id].status = "in_progress"])

\* MaintenanceService.complete_maintenance_request: BaseRepository.update of
\* the status and the resolution.
complete_maintenance_request(store, request_id, resolution_notes, completed_by_id) ==
    IF request_id \notin 1 .. Len(store) THEN Returned("NotFound", store)
    ELSE Returned("ok", [store EXCEPT ![request_id].status = "completed",
                                      ![request_id].resolution_notes = resolution_notes,
                                      ![request_id].completed_by_id = completed_by_id])

\* MaintenanceService.reopen_maintenance_request: BaseRepository.update of the
\* status and the reason, the resolution cleared.
reopen_maintenance_request(store, request_id, reopen_reason, reopened_by_id) ==
    IF request_id \notin 1 .. Len(store) THEN Returned("NotFound", store)
    ELSE Returned("ok", [store EXCEPT ![request_id].status = "pending",
                                      ![request_id].reopen_reason = reopen_reason,
                                      ![request_id].resolution_notes = None,
                                      ![request_id].completed_by_id = None])

\* No login in progress.  now is the value of datetime.utcnow() that
\* update_user_device puts into device_data, -1 before it is taken.
\* What a caller passes to update_maintenance_request: a dictionary with a status.
StatusUpdates == {[status |-> "cancelled"], [status |-> "completed"], [status |-> "in_progress"]}

\* MaintenanceService.update_maintenance_request: BaseRepository.update writes
\* the fields of the dictionary, whatever they are, without reading the
\* request; Firestore's update raises NotFound when the document is missing.
update_maintenance_request(store, request_id, update_data) ==
    IF request_id \notin 1 .. Len(store) THEN Returned("NotFound", store)
    ELSE Returned("ok", [store EXCEPT ![request_id] =
                            [f \in DOMAIN store[request_id] |->
                                IF f \in DOMAIN update_data THEN update_data[f]
                                ELSE store[request_id][f]]])

Idle == [pc |-> "idle", user |-> NoUser, device_id |-> "", now |-> 0 - 1]
\* SchedulerService.__init__: not running, no thread; no scan has run; no
\* maintenance request has been reported.
NoScan == [loop |-> 0, sent |-> <<>>, error |-> "none", completed |-> {}]
\* No checklist request in progress.  photos and booking_id are those of the
\* checklist the request has read; changed tells whether a write of the
\* request has changed a collection.
NoRequest == [pc |-> "idle", id |-> NoId, photo_type |-> "", notes |-> <<>>,
              photos |-> <<>>, booking_id |-> NoId, changed |-> FALSE]
OtherInit ==
    /\ requests = [t \in Threads |-> NoRequest]
    /\ running = FALSE
    /\ loops = <<>>
    /\ scan = NoScan
    /\ maintenance = <<>>
RestInit ==
    /\ users = [i \in UserDocIds |-> NoUser]
    /\ logins = [t \in Threads |-> Idle]
    /\ clock = 0
    /\ checklists = <<>>
    /\ OtherInit

\* ------------------------------------------------------------------ actions
NoReq == [user_id |-> "", user_name |-> "", start_date |-> Absent, end_date |-> Absent,
          notes |-> PyStr(<<>>)]
NoCall == [op |-> "none", status |-> 0, changed |-> FALSE]
Call(op, r, before) ==
    [op |-> op, status |-> r.status, changed |-> r.store # before]
\* What a direct call of a service method leaves: no endpoint answers, so
\* there is no status.
ServiceMethodCall(op, result, changed) ==
    [op |-> op, result |-> result, status |-> 0, changed |-> changed]

\* What a client may send as a date: an ISO date of the calendar, or a string
\* that is no date.
StrInputs == {Str(d) : d \in Days} \cup {BadStr}
NotesInputs == {PyStr(<<"n">>)}
\* The notes of a create request: none, or a text with blanks around it.
CreateNotes == {PyNone, PyStr(<<" ", "n", " ">>)}
\* A date left out of the request body, and dates that are no date: '' and
\* 'invalid-date'.
MissingInputs == {Absent, EmptyStr, BadStr}
\* Request bodies of an update: new notes, a new start, a new end, or both dates.
UpdateInputs ==
    [start_date : {Absent}, end_date : {Absent}, notes : NotesInputs]
    \cup [start_date : StrInputs, end_date : {Absent}, notes : {AbsentNotes}]
    \cup [start_date : {Absent}, end_date : StrInputs, notes : {AbsentNotes}]
    \cup [start_date : {Str(d) : d \in Days}, end_date : {Str(d) : d \in Days}, notes : {AbsentNotes}]
BookingIds == 1 .. MaxBookings
\* The document store is Firestore, whose client converts None, bool, int,
\* float, datetime, str, bytes, references, lists and dicts, and raises
\* TypeError ("Cannot convert to a Firestore Value") for a datetime.date.
StoreTakesDates == FALSE

InFlight == {t \in Threads : pending[t] # NoReq}

NoDirectCall == [fn |-> "none"]

\* The users collection once u1 and u2 have each logged in from device d1.
RegisteredUsers ==
    api_login(api_login([i \in UserDocIds |-> NoUser], "u1", "d1", 0, "u1").store,
              "u2", "d1", 1, "u2").store

\* No booking is stored; both users have logged in once.
Init ==
    /\ bookings = <<>>
    /\ pending = [t \in Threads |-> NoReq]
    /\ today = 0
    /\ last = NoCall
    /\ call = NoDirectCall
    /\ users = RegisteredUsers
    /\ logins = [t \in Threads |-> Idle]
    /\ clock = 2
    /\ checklists = <<>>
    /\ OtherInit

\* Nobody has logged in yet: the users collection is empty.
InitLogin ==
    /\ bookings = <<>>
    /\ pending = [t \in Threads |-> NoReq]
    /\ today = 0
    /\ last = NoCall
    /\ call = NoDirectCall
    /\ RestInit

\* A create_booking request that is answered with an error before any write;
\* its notes are not read.
CreateRejected(t, sd, ed) ==
    /\ pending[t] = NoReq
    /\ LET r == api_create_check(bookings, users, today, UserOf(t), sd, ed, PyNone) IN
         /\ r.status # Passed
         /\ last' = Call("create", r, bookings)
    /\ UNCHANGED <<bookings, pending, today, call>>
    /\ UNCHANGED rest

\* A create_booking request passes the conflict check; its write is a later step.
CreateCheck(t, sd, ed, notes) ==
    /\ pending[t] = NoReq
    /\ Len(bookings) + Cardinality(InFlight) < MaxBookings
    /\ LET r == api_create_check(bookings, users, today, UserOf(t), sd, ed, notes) IN
         /\ r.status = Passed
         /\ pending' = [pending EXCEPT ![t] = r.body]
    /\ UNCHANGED <<bookings, today, last, call>>
    /\ UNCHANGED rest

\* The request writes its booking and answers.
CreateWrite(t) ==
    /\ pending[t] # NoReq
    /\ LET r == api_create_write(bookings, today, pending[t]) IN
         /\ bookings' = r.store
         /\ last' = Call("create", r, bookings)
    /\ pending' = [pending EXCEPT ![t] = NoReq]
    /\ UNCHANGED <<today, call>>
    /\ UNCHANGED rest

\* BookingService.create_booking called with any arguments, while no request
\* is between its check and its write.
CreateBooking(user_id, sd, ed, notes) ==
    /\ \A t \in Threads : pending[t] = NoReq
    /\ LET r == create_booking(bookings, users, today, user_id, sd, ed, notes) IN
         /\ r.exc = "none" => Len(bookings) < MaxBookings
         /\ bookings' = r.store
         /\ last' = ServiceMethodCall("create_booking", r.exc, r.store # bookings)
    /\ UNCHANGED <<pending, today, call>>
    /\ UNCHANGED rest

CancelBooking(t, id) ==
    /\ pending[t] = NoReq
    /\ LET r == api_cancel_booking(bookings, UserOf(t), id) IN
         /\ bookings' = r.store
         /\ last' = Call("cancel", r, bookings)
    /\ UNCHANGED <<pending, today, call>>
    /\ UNCHANGED rest

DeleteBooking(t, id) ==
    /\ pending[t] = NoReq
    /\ LET r == api_delete_booking(bookings, UserOf(t), id) IN
         /\ bookings' = r.store
         /\ last' = Call("delete", r, bookings)
    /\ UNCHANGED <<pending, today, call>>
    /\ UNCHANGED rest

UpdateBooking(t, id, data) ==
    /\ pending[t] = NoReq
    /\ LET r == api_update_booking(bookings, today, UserOf(t), id, data, StoreTakesDates) IN
         /\ bookings' = r.store
         /\ last' = Call("update", r, bookings)
    /\ UNCHANGED <<pending, today, call>>
    /\ UNCHANGED rest

\* Midnight passes.
Tick ==
    /\ today < MaxToday
    /\ today' = today + 1
    /\ UNCHANGED <<bookings, pending, last, call>>
    /\ UNCHANGED rest

ThreadStep(t) ==
    \/ \E sd \in StrInputs, ed \in StrInputs : CreateRejected(t, sd, ed)
    \/ \E sd \in StrInputs, ed \in StrInputs : CreateCheck(t, sd, ed, PyNone)
    \/ CreateWrite(t)
    \/ \E id \in BookingIds : CancelBooking(t, id)
    \/ \E id \in BookingIds : DeleteBooking(t, id)
    \/ \E id \in BookingIds, data \in UpdateInputs : UpdateBooking(t, id, data)

\* Requests are handled concurrently, one thread each.
Next ==
    \/ \E t \in Threads : ThreadStep(t)
    \/ Tick

Spec == Init /\ [][Next]_vars

\* Requests are handled one at a time: while a request is between its conflict
\* check and its write, no other request runs.
SeqNext ==
    \/ \E t \in Threads : (\A u \in Threads \ {t} : pending[u] = NoReq) /\ ThreadStep(t)
    \/ Tick

SpecSeq == Init /\ [][SeqNext]_vars

\* --------------------------------------------- requests with far-apart dates
\* The same endpoints, one request at a time, with dates up to two days past
\* the longest span a booking may have.
WideDays == {0, 1, MAX_DAYS, MAX_DAYS + 1, MAX_DAYS + 2}
WideInputs == {Str(d) : d \in WideDays}
WideUpdates ==
    [start_date : WideInputs \cup {Absent}, end_date : WideInputs \cup {Absent},
     notes : {AbsentNotes}] \ {[start_date |-> Absent, end_date |-> Absent, notes |-> AbsentNotes]}

WideStep(t) ==
    \/ \E sd \in WideInputs, ed \in WideInputs : CreateRejected(t, sd, ed)
    \/ \E sd \in WideInputs, ed \in WideInputs : CreateCheck(t, sd, ed, PyNone)
    \/ CreateWrite(t)
    \/ \E id \in BookingIds : CancelBooking(t, id)
    \/ \E id \in BookingIds, data \in WideUpdates : UpdateBooking(t, id, data)

WideNext ==
    \/ \E t \in Threads : (\A u \in Threads \ {t} : pending[u] = NoReq) /\ WideStep(t)
    \/ Tick

SpecWide == Init /\ [][WideNext]_vars

\* ------------------------------------- calls of BookingService.create_booking
\* The arguments of a call of BookingService.create_booking: the id of a user
\* with a document, of a user without one, an id outside the collection, or
\* ''; for each date an ISO date, None, '', 'invalid-date' or a date object.
ServiceUsers == {"u1", "v1", UnknownUser, ""}
ServiceDates == {Str(0), Str(1), Str(2), Str(MAX_DAYS + 2), NoStr, EmptyStr, BadStr, Date(1)}
\* What a create request carries as a date.
ServiceInputs == {Str(0), Str(1), Str(2)} \cup MissingInputs

ServiceStep(t) ==
    \/ \E sd \in ServiceInputs, ed \in ServiceInputs : CreateRejected(t, sd, ed)
    \/ \E sd \in ServiceInputs, ed \in ServiceInputs, notes \in CreateNotes :
          CreateCheck(t, sd, ed, notes)
    \/ CreateWrite(t)
    \/ \E id \in BookingIds : CancelBooking(t, id)

\* The service is called directly and through POST /bookings, one call at a time.
ServiceNext ==
    \/ \E t \in Threads : (\A u \in Threads \ {t} : pending[u] = NoReq) /\ ServiceStep(t)
    \/ \E u \in ServiceUsers, sd \in ServiceDates, ed \in ServiceDates, notes \in CreateNotes :
          CreateBooking(u, sd, ed, notes)
    \/ Tick

SpecService == Init /\ [][ServiceNext]_vars

\* ------------------------------------------- direct calls of validate_date_range
\* validate_date_range is called with dates of 0..MaxCallDay and with max_days
\* its default or a custom limit, on a day date.today() of 0..MaxToday.
MaxCallDay == 32
CustomMaxDays == 2
CallDays == 0 .. MaxCallDay

InitValidate ==
    /\ bookings = <<>>
    /\ pending = [t \in Threads |-> NoReq]
    /\ last = NoCall
    /\ today \in 0 .. MaxToday
    /\ call \in [fn : {"validate_date_range"}, start_date : CallDays, end_date : CallDays,
                 max_days : {MAX_DAYS, CustomMaxDays}, returned : {FALSE}, result : {""}]
    /\ RestInit

CallValidate ==
    /\ call.fn = "validate_date_range"
    /\ ~call.returned
    /\ call' = [call EXCEPT !.returned = TRUE,
                            !.result = validate_date_range(Date(call.start_date), Date(call.end_date),
                                                           call.max_days, today)]
    /\ UNCHANGED <<bookings, pending, today, last>>
    /\ UNCHANGED rest

SpecValidate == InitValidate /\ [][CallValidate]_vars

\* ------------------------------------------------------- login and devices
\* What the login and reset endpoints leave alone.
bookingVars == <<bookings, pending, today, call, checklists, otherVars>>
InLogin == {t \in Threads : logins[t] # Idle}

\* POST /auth/login, lines 53-68: get_or_create_user finds the user (line 33)
\* and the device is refused; the login is answered 403.
LoginRefused(t, u, d) ==
    /\ logins[t] = Idle
    /\ LET existing_user == get_by_firebase_uid(users, u) IN
         /\ existing_user # NoUser
         /\ ~verify_device(existing_user, d)
         /\ last' = [op |-> "login", status |-> 403, changed |-> FALSE]
    /\ UNCHANGED <<users, logins, clock, bookingVars>>

\* get_or_create_user finds the user and the device check passes;
\* update_user_device is called next.
LoginVerified(t, u, d) ==
    /\ logins[t] = Idle
    /\ clock + Cardinality(InLogin) < MaxLogins
    /\ LET existing_user == get_by_firebase_uid(users, u) IN
         /\ existing_user # NoUser
         /\ verify_device(existing_user, d)
         /\ logins' = [logins EXCEPT ![t] = [pc |-> "verified", user |-> existing_user,
                                             device_id |-> d, now |-> 0 - 1]]
    /\ UNCHANGED <<users, last, clock, bookingVars>>

\* get_or_create_user finds no user of the firebase uid (line 33) and builds
\* one (lines 38-50); user_repository.create is called next.
LoginLookupMissed(t, u, d) ==
    /\ logins[t] = Idle
    /\ clock + Cardinality(InLogin) < MaxLogins
    /\ get_by_firebase_uid(users, u) = NoUser
    /\ logins' = [logins EXCEPT ![t] = [pc |-> "create", user |-> NewUser(u), device_id |-> d,
                                        now |-> 0 - 1]]
    /\ UNCHANGED <<users, last, clock, bookingVars>>

\* user_repository.create writes the new user under a generated id (line 53);
\* the device check of a user without a device passes.
LoginCreate(t, id) ==
    /\ logins[t].pc = "create"
    /\ id \in DocIdsOf(logins[t].user.firebase_uid)
    /\ users[id] = NoUser
    /\ LET got == create_user(users, logins[t].user, id) IN
         /\ verify_device(got.user, logins[t].device_id)
         /\ users' = got.store
         /\ logins' = [logins EXCEPT ![t].pc = "verified", ![t].user = got.user]
    /\ UNCHANGED <<last, clock, bookingVars>>

\* update_user_device reads the user (line 92).
LoginRead(t) ==
    /\ logins[t].pc = "verified"
    /\ logins' = [logins EXCEPT ![t].pc = "read",
                                ![t].user = user_get_by_id(users, logins[t].user.id)]
    /\ UNCHANGED <<users, last, clock, bookingVars>>

\* update_user_device builds device_data (lines 97-105): datetime.utcnow() is
\* evaluated once get_by_id has returned, and before the write; other
\* requests may have written in between.
LoginStamp(t) ==
    /\ logins[t].pc = "read"
    /\ logins' = [logins EXCEPT ![t].pc = "stamped", ![t].now = clock]
    /\ UNCHANGED <<users, last, clock, bookingVars>>

\* update_user_device writes the current_device and device_history it built
\* after the read (line 127) and the login is answered 200.
LoginWrite(t) ==
    /\ logins[t].pc = "stamped"
    /\ users' = update_user_device_write(users, logins[t].user, logins[t].device_id,
                                         logins[t].now)
    /\ clock' = clock + 1
    /\ last' = [op |-> "login", status |-> 200, changed |-> users' # users]
    /\ logins' = [logins EXCEPT ![t] = Idle]
    /\ UNCHANGED bookingVars

\* POST /users/devices/reset by a logged-in user.
ResetDevice(t, u) ==
    /\ logins[t] = Idle
    /\ users[u] # NoUser
    /\ LET r == api_reset_device(users, u) IN
         /\ users' = r.store
         /\ last' = [op |-> "reset", status |-> r.status, changed |-> r.store # users]
    /\ UNCHANGED <<logins, clock, bookingVars>>

LoginStep(t) ==
    \/ \E u \in Users, d \in DeviceIds : LoginRefused(t, u, d)
    \/ \E u \in Users, d \in DeviceIds : LoginVerified(t, u, d)
    \/ \E u \in Users, d \in DeviceIds : LoginLookupMissed(t, u, d)
    \/ \E id \in UserDocIds : LoginCreate(t, id)
    \/ LoginRead(t)
    \/ LoginStamp(t)
    \/ LoginWrite(t)
    \/ \E u \in UserDocIds : ResetDevice(t, u)

\* A direct call of UserService.update_user_preferences; no endpoint calls it.
UpdateUserPreferences(id, preferences) ==
    /\ LET r == update_user_preferences(users, id, preferences) IN
         /\ users' = r.store
         /\ last' = ServiceMethodCall("update_user_preferences", r.result, r.store # users)
    /\ UNCHANGED <<logins, clock, bookingVars>>

\* Login requests are handled concurrently, and the service is called directly.
LoginNext ==
    \/ \E t \in Threads : LoginStep(t)
    \/ \E id \in UserDocIds, p \in PreferenceUpdates : UpdateUserPreferences(id, p)
SpecLogin == InitLogin /\ [][LoginNext]_vars

\* Login requests are handled one at a time.
LoginSeqNext ==
    \E t \in Threads : (\A o \in Threads \ {t} : logins[o] = Idle) /\ LoginStep(t)
SpecLoginSeq == InitLogin /\ [][LoginSeqNext]_vars

\* ------------------------------------------------------------ exit checklists
MaxChecklists == 1
MaxStoredEntries == 4
\* Notes a client sends: five characters of which four are letters, and five letters.
PaddedShort == <<" ", "a", "b", "c", "d">>
Enough == <<"a", "b", "c", "d", "e">>
Blank == <<" ", " ", " ", " ", " ">>
\* Five characters of which the first is a tab and the last a no-break space.
TabPadded == <<"\t", "a", "b", "c", "U+00A0">>
ChecklistIds == 1 .. MaxChecklists
\* What a client sends as important notes.
ImportantNotes == {"keys are with the neighbour"}
loginVars == <<users, logins, clock>>

\* Bookings as create_booking and cancel_booking leave them: two stays that
\* start on day 0 and end on day 1 or 2, the first of them cancelled or not.
ExitRequest(u, e) ==
    [user_id |-> u, user_name |-> NameOf(u), start_date |-> Str(0), end_date |-> Str(e),
     notes |-> PyStr(<<>>)]
ExitStore(e1, e2, c) ==
    LET one == repo_create_booking(<<>>, ExitRequest("u1", e1), 0).val
        two == repo_create_booking(one, ExitRequest("u2", e2), 0).val
    IN  IF c THEN repo_cancel_booking(two, 1) ELSE two
ExitStores == {ExitStore(e1, e2, c) : e1 \in {1, 2}, e2 \in {1, 2}, c \in BOOLEAN}

\* Both users have logged in once, each from device d1, and u1 has booked a
\* stay from day 0 to day 1.
InitChecklist ==
    /\ bookings = repo_create_booking(<<>>, ExitRequest("u1", 1), 0).val
    /\ pending = [t \in Threads |-> NoReq]
    /\ today = 0
    /\ last = NoCall
    /\ call = NoDirectCall
    /\ users = RegisteredUsers
    /\ logins = [t \in Threads |-> Idle]
    /\ clock = 2
    /\ checklists = <<>>
    /\ OtherInit

\* The endpoint's answer to what the service returned: 201 for a created
\* checklist or maintenance request and 200 for any other success, 400 for
\* False, 400 for a ValueError where the endpoint has a handler for it (the
\* assign endpoint has none), 500 for any other exception.
ServiceCall(op, r, before) ==
    [op |-> op, result |-> r.result,
     status |-> IF r.result = "ok"
                  THEN IF op \in {"create_checklist", "create_maintenance_request"}
                         THEN 201 ELSE 200
                ELSE IF r.result = "False" THEN 400
                ELSE IF r.result = "ValueError" /\ op # "assign_maintenance_request" THEN 400
                ELSE 500,
     changed |-> r.store # before]

CreateChecklist(u, b) ==
    /\ Len(checklists) < MaxChecklists
    /\ LET r == create_checklist(checklists, users, bookings, u, b) IN
         /\ checklists' = r.store
         /\ last' = ServiceCall("create_checklist", r, checklists)
    /\ UNCHANGED <<bookings, pending, today, call, loginVars, otherVars>>

\* The store operations of the two threads' requests interleave.
InRequest(id) == {t \in Threads : requests[t].pc \in {"add", "add_read"} /\ requests[t].id = id}

\* POST /checklists/<id>/entries, add_entry_to_checklist line 102: the
\* checklist is read; False, answered 400, when there is none, else
\* entry_data is built and the repository is called.
AddEntryGet(t, id, photo_type, notes) ==
    /\ requests[t] = NoRequest
    /\ id \in 1 .. Len(checklists) =>
          Len(checklists[id].photos) + Cardinality(InRequest(id)) < MaxStoredEntries
    /\ IF get_checklist_by_id(checklists, id) = NoChecklist
         THEN /\ last' = ServiceCall("add_entry_to_checklist", Returned("False", checklists),
                                     checklists)
              /\ UNCHANGED requests
         ELSE /\ requests' = [requests EXCEPT ![t] = [NoRequest EXCEPT !.pc = "add", !.id = id,
                                                         !.photo_type = photo_type,
                                                         !.notes = notes]]
              /\ UNCHANGED last
    /\ UNCHANGED <<checklists, bookings, pending, today, call, loginVars, schedulerVars>>

\* add_photo_to_checklist line 138: the repository reads the checklist again.
AddEntryRead(t) ==
    /\ requests[t].pc = "add"
    /\ LET checklist == get_checklist_by_id(checklists, requests[t].id) IN
         IF checklist = NoChecklist
           THEN /\ last' = ServiceCall("add_entry_to_checklist", Returned("False", checklists),
                                       checklists)
                /\ requests' = [requests EXCEPT ![t] = NoRequest]
           ELSE /\ requests' = [requests EXCEPT ![t].pc = "add_read",
                                                ![t].photos = checklist.photos]
                /\ UNCHANGED last
    /\ UNCHANGED <<checklists, bookings, pending, today, call, loginVars, schedulerVars>>

\* add_photo_to_checklist line 158: the photos list built from that read is
\* written, and the request is answered 200.
AddEntryWrite(t) ==
    /\ requests[t].pc = "add_read"
    /\ checklists' = add_photo_to_checklist_write(
                         checklists,
                         [NoChecklist EXCEPT !.id = requests[t].id, !.photos = requests[t].photos],
                         [photo_type |-> requests[t].photo_type, notes |-> requests[t].notes])
    /\ last' = ServiceCall("add_entry_to_checklist", Returned("ok", checklists'), checklists)
    /\ requests' = [requests EXCEPT ![t] = NoRequest]
    /\ UNCHANGED <<bookings, pending, today, call, loginVars, schedulerVars>>

\* POST /checklists/<id>/submit, submit_checklist lines 136-144: the checklist
\* is read and validated; False and the ValueError are answered 400.
SubmitGet(t, id) ==
    /\ requests[t] = NoRequest
    /\ LET checklist == get_checklist_by_id(checklists, id)
           result == submit_checklist_check(checklist)
       IN  IF result # "ok"
             THEN /\ last' = ServiceCall("submit_checklist", Returned(result, checklists),
                                         checklists)
                  /\ UNCHANGED requests
             ELSE /\ requests' = [requests EXCEPT ![t] = [NoRequest EXCEPT
                                                             !.pc = "submit", !.id = id,
                                                             !.booking_id = checklist.booking_id]]
                  /\ UNCHANGED last
    /\ UNCHANGED <<checklists, bookings, pending, today, call, loginVars, schedulerVars>>

\* submit_checklist line 147: the repository writes is_complete and
\* submitted_at.  A checklist that names no booking is answered 200 here.
SubmitWrite(t) ==
    /\ requests[t].pc = "submit"
    /\ checklists' = repo_submit_checklist(checklists, requests[t].id, clock)
    /\ IF requests[t].booking_id = NoId
         THEN /\ last' = ServiceCall("submit_checklist", Returned("ok", checklists'), checklists)
              /\ requests' = [requests EXCEPT ![t] = NoRequest]
         ELSE /\ requests' = [requests EXCEPT ![t].pc = "submit_written",
                                              ![t].changed = checklists' # checklists]
              /\ UNCHANGED last
    /\ UNCHANGED <<bookings, pending, today, call, loginVars, schedulerVars>>

\* submit_checklist lines 149-160: the booking is marked, and the request is
\* answered 200 whether or not that write succeeded.
SubmitMark(t) ==
    /\ requests[t].pc = "submit_written"
    /\ bookings' = submit_checklist_mark(
                       bookings, [NoChecklist EXCEPT !.id = requests[t].id,
                                                     !.booking_id = requests[t].booking_id])
    /\ last' = [ServiceCall("submit_checklist", Returned("ok", bookings'), bookings)
                   EXCEPT !.changed = @ \/ requests[t].changed]
    /\ requests' = [requests EXCEPT ![t] = NoRequest]
    /\ UNCHANGED <<checklists, pending, today, call, loginVars, schedulerVars>>

\* A direct call of BookingService.mark_exit_checklist_completed, which passes
\* its arguments to the repository; no endpoint calls it.
MarkExitChecklistCompleted(booking_id, checklist_id) ==
    /\ LET marked == mark_exit_checklist_completed(bookings, booking_id, checklist_id) IN
         /\ bookings' = IF marked.exc = "none" THEN marked.val ELSE bookings
         /\ last' = ServiceMethodCall("mark_exit_checklist_completed",
                                      IF marked.exc = "none" THEN "ok" ELSE marked.exc,
                                      bookings' # bookings)
    /\ UNCHANGED <<checklists, requests, pending, today, call, loginVars, schedulerVars>>

\* The steps of a thread's add-entry or submit request.
RequestStep(t) ==
    \/ AddEntryRead(t)
    \/ AddEntryWrite(t)
    \/ SubmitWrite(t)
    \/ SubmitMark(t)

UpdateImportantNotes(id, notes) ==
    /\ LET r == update_checklist(checklists, id, notes) IN
         /\ checklists' = r.store
         /\ last' = ServiceCall("update_important_notes", r, checklists)
    /\ UNCHANGED <<bookings, pending, today, call, loginVars, otherVars>>

\* The entries the clients send: one for each required category with notes
\* that are long enough, and one with notes too short once trimmed.
ChecklistEntries ==
    {[photo_type |-> REQUIRED_CATEGORIES[k], notes |-> Enough] : k \in DOMAIN REQUIRED_CATEGORIES}
    \cup {[photo_type |-> "refrigerator", notes |-> PaddedShort]}

ChecklistNext ==
    \/ \E u \in {"u1", UnknownUser}, b \in {NoId} \cup BookingIds : CreateChecklist(u, b)
    \/ \E t \in Threads, id \in ChecklistIds, e \in ChecklistEntries :
          AddEntryGet(t, id, e.photo_type, e.notes)
    \/ \E t \in Threads, id \in ChecklistIds : SubmitGet(t, id)
    \/ \E t \in Threads : RequestStep(t)
    \/ \E id \in ChecklistIds, n \in ImportantNotes : UpdateImportantNotes(id, n)

SpecChecklist == InitChecklist /\ [][ChecklistNext]_vars

\* ----------------------------------------- direct calls of ExitChecklist.validate
\* validate is called on every list of at most MaxEntries entries whose
\* category is one of the four and whose notes are blank, short once trimmed,
\* or long enough.
EntryInputs == [photo_type : PhotoTypes, notes : {Blank, PaddedShort, TabPadded, Enough}]
EntryLists == UNION {[1 .. n -> EntryInputs] : n \in 0 .. MaxEntries}

InitChecklistValidate ==
    /\ bookings = <<>>
    /\ pending = [t \in Threads |-> NoReq]
    /\ today = 0
    /\ last = NoCall
    /\ call \in [fn : {"ExitChecklist.validate"}, photos : EntryLists,
                 returned : {FALSE}, result : {Valid}]
    /\ RestInit

CallChecklistValidate ==
    /\ call.fn = "ExitChecklist.validate"
    /\ ~call.returned
    /\ call' = [call EXCEPT !.returned = TRUE, !.result = ExitChecklist_validate(call.photos)]
    /\ UNCHANGED <<bookings, pending, today, last, rest>>

SpecChecklistValidate == InitChecklistValidate /\ [][CallChecklistValidate]_vars

\* --------------------------------------------------------------- scheduler
MaxLoops == 2
LoopIds == 1 .. MaxLoops
\* What a read of the bookings collection does: it returns, or the store is unreachable.
ReadOutcomes == {"ok", "ServiceUnavailable"}
\* What the scheduler leaves alone.
notScheduler == <<bookings, pending, today, last, call, users, logins, clock, checklists, requests,
                  maintenance>>

Start ==
    /\ running \/ Len(loops) < MaxLoops
    /\ LET r == start(running, loops) IN
         /\ running' = r.running
         /\ loops' = r.loops
    /\ UNCHANGED <<scan, notScheduler>>

Stop ==
    /\ running
    /\ LET r == stop(running, loops) IN
         /\ running' = r.running
         /\ loops' = r.loops
    /\ UNCHANGED <<scan, notScheduler>>

\* The while test of a loop thread.
LoopTest(l) ==
    /\ l \in 1 .. Len(loops)
    /\ loops[l].pc = "check"
    /\ loops' = [loops EXCEPT ![l] = _run_scheduler_while(running)]
    /\ UNCHANGED <<running, scan, notScheduler>>

\* One run of _check_exit_reminders by a loop thread, and what the thread does next.
LoopScan(l, read) ==
    /\ l \in 1 .. Len(loops)
    /\ loops[l].pc = "scan"
    /\ LET scanned == _check_exit_reminders(bookings, today, read) IN
         /\ scan' = [loop |-> l, sent |-> scanned.sent, error |-> scanned.error,
                     completed |-> {b \in 1 .. Len(bookings) : bookings[b].exit_checklist_completed}]
         /\ loops' = [loops EXCEPT ![l] = _run_scheduler_after_scan(scanned)]
    /\ UNCHANGED <<running, notScheduler>>

\* time.sleep returns.
LoopWake(l) ==
    /\ l \in 1 .. Len(loops)
    /\ loops[l].pc = "sleep"
    /\ loops' = [loops EXCEPT ![l] = LoopAt("check", 0)]
    /\ UNCHANGED <<running, scan, notScheduler>>

LoopStep(l) ==
    \/ LoopTest(l)
    \/ \E read \in ReadOutcomes : LoopScan(l, read)
    \/ LoopWake(l)

InitScheduler ==
    /\ bookings \in ExitStores
    /\ pending = [t \in Threads |-> NoReq]
    /\ today \in 0 .. MaxToday
    /\ last = NoCall
    /\ call = NoDirectCall
    /\ RestInit

SchedulerNext ==
    \/ Start
    \/ Stop
    \/ \E l \in LoopIds : LoopStep(l)

SpecScheduler == InitScheduler /\ [][SchedulerNext]_vars

\* Every thread that start() created is scheduled, and a sleep ends; the two
\* stays both end on day 1.
InitSchedulerFair ==
    /\ InitScheduler
    /\ bookings = ExitStore(1, 1, FALSE)
SpecSchedulerFair ==
    /\ InitSchedulerFair
    /\ [][SchedulerNext]_vars
    /\ \A l \in LoopIds : WF_vars(LoopStep(l))

\* The bookings collection with a document written by another client of the
\* database, whose end date is no ISO date.
LegacyStores ==
    {[s EXCEPT ![1].end_date = BadStr] : s \in ExitStores}
    \cup {[s EXCEPT ![2].end_date = BadStr] : s \in ExitStores}

InitLegacy ==
    /\ bookings \in LegacyStores
    /\ pending = [t \in Threads |-> NoReq]
    /\ today \in 0 .. MaxToday
    /\ last = NoCall
    /\ call = NoDirectCall
    /\ RestInit

SpecLegacy == InitLegacy /\ [][SchedulerNext]_vars

\* ------------------------------------------- checklists of a stay and the scans
\* Both users have logged in, the scheduler has been started, and two stays
\* are booked, the first ending on day 1 and the second on day 2; a guest
\* fills in and submits checklists while the loop scans.
InitExit ==
    /\ bookings = ExitStore(1, 2, FALSE)
    /\ pending = [t \in Threads |-> NoReq]
    /\ today = 0
    /\ last = NoCall
    /\ call = NoDirectCall
    /\ users = api_login(api_login([i \in UserDocIds |-> NoUser], "u1", "d1", 0, "u1").store,
                        "u2", "d1", 1, "u2").store
    /\ logins = [t \in Threads |-> Idle]
    /\ clock = 2
    /\ checklists = <<>>
    /\ requests = [t \in Threads |-> NoRequest]
    /\ running = start(FALSE, <<>>).running
    /\ loops = start(FALSE, <<>>).loops
    /\ scan = NoScan
    /\ maintenance = <<>>

ExitNext ==
    \/ \E b \in {NoId} \cup BookingIds : CreateChecklist("u1", b)
    \/ \E id \in ChecklistIds, k \in DOMAIN REQUIRED_CATEGORIES :
          AddEntryGet("t1", id, REQUIRED_CATEGORIES[k], Enough)
    \/ \E id \in ChecklistIds : SubmitGet("t1", id)
    \/ RequestStep("t1")
    \/ \E b \in BookingIds, id \in ChecklistIds : MarkExitChecklistCompleted(b, id)
    \/ LoopStep(1)
    \/ Tick

SpecExit == InitExit /\ [][ExitNext]_vars

\* ------------------------------------------- direct calls of send_exit_reminder
InitSendReminder ==
    /\ bookings = <<>>
    /\ pending = [t \in Threads |-> NoReq]
    /\ today = 0
    /\ last = NoCall
    /\ call \in [fn : {"send_exit_reminder"}, lookup : LookupOutcomes, send : SendOutcomes,
                 realtime : RealtimeOutcomes, returned : {FALSE},
                 result : {Ok(FALSE)}, scheduler : {Ok(FALSE)}]
    /\ RestInit

\* NotificationService.send_exit_reminder is called, and so is the scheduler's
\* _send_exit_reminder around it.
CallSendReminder ==
    /\ call.fn = "send_exit_reminder"
    /\ ~call.returned
    /\ call' = [call EXCEPT !.returned = TRUE,
                            !.result = send_exit_reminder(call.lookup, call.send, call.realtime),
                            !.scheduler = _send_exit_reminder(call.lookup, call.send, call.realtime)]
    /\ UNCHANGED <<bookings, pending, today, last, rest>>

SpecSendReminder == InitSendReminder /\ [][CallSendReminder]_vars

\* ------------------------------------------------------ maintenance requests
MaxRequests == 2
RequestIds == 1 .. MaxRequests
ResolutionNotes == {"fixed the tap"}
ReopenReasons == {"still leaking"}
notMaintenance == <<bookings, pending, today, call, loginVars, checklists, requests,
                    running, loops, scan>>

CreateMaintenance(u, description) ==
    /\ Len(maintenance) < MaxRequests
    /\ LET r == create_maintenance_request(maintenance, users, u, description, Location) IN
         /\ maintenance' = r.store
         /\ last' = ServiceCall("create_maintenance_request", r, maintenance)
    /\ UNCHANGED notMaintenance

AssignMaintenance(id, u) ==
    /\ LET r == assign_maintenance_request(maintenance, users, id, u) IN
         /\ maintenance' = r.store
         /\ last' = ServiceCall("assign_maintenance_request", r, maintenance)
    /\ UNCHANGED notMaintenance

CompleteMaintenance(id, notes, u) ==
    /\ LET r == complete_maintenance_request(maintenance, id, notes, u) IN
         /\ maintenance' = r.store
         /\ last' = ServiceCall("complete_maintenance_request", r, maintenance)
    /\ UNCHANGED notMaintenance

ReopenMaintenance(id, reason, u) ==
    /\ LET r == reopen_maintenance_request(maintenance, id, reason, u) IN
         /\ maintenance' = r.store
         /\ last' = ServiceCall("reopen_maintenance_request", r, maintenance)
    /\ UNCHANGED notMaintenance

\* A direct call of MaintenanceService.update_maintenance_request; no
\* endpoint calls it.
UpdateMaintenance(id, update_data) ==
    /\ LET r == update_maintenance_request(maintenance, id, update_data) IN
         /\ maintenance' = r.store
         /\ last' = ServiceMethodCall("update_maintenance_request", r.result,
                                      r.store # maintenance)
    /\ UNCHANGED notMaintenance

MaintenanceNext ==
    \/ \E u \in Users \cup {UnknownUser}, d \in {LongDescription, ShortDescription} :
          CreateMaintenance(u, d)
    \/ \E id \in RequestIds, u \in Users \cup {UnknownUser} : AssignMaintenance(id, u)
    \/ \E id \in RequestIds, n \in ResolutionNotes, u \in Users : CompleteMaintenance(id, n, u)
    \/ \E id \in RequestIds, n \in ReopenReasons, u \in Users : ReopenMaintenance(id, n, u)
    \/ \E id \in RequestIds, d \in StatusUpdates : UpdateMaintenance(id, d)

SpecMaintenance == InitChecklist /\ [][MaintenanceNext]_vars

\* ================================================================== claims
\* Two stored documents whose inclusive date spans intersect.
Intersect(a, b) ==
    a.start_date.day <= b.end_date.day /\ b.start_date.day <= a.end_date.day
DocIds == 1 .. Len(bookings)
ActiveIds == {i \in DocIds : ~bookings[i].is_cancelled}
DoubleBooked ==
    \E i \in ActiveIds, j \in ActiveIds : i # j /\ Intersect(bookings[i], bookings[j])
\* The date ranges a client can ask for, as pairs of calendar days.
Ranges == {r \in Days \X Days : r[1] < r[2]}
\* The non-cancelled stored reservations whose span intersects [s1, e1].
Intersecting(s1, e1) ==
    {i \in ActiveIds : s1 <= bookings[i].end_date.day /\ bookings[i].start_date.day <= e1}

\* C1: when requests run one at a time, no two stored reservations that are
\* both non-cancelled have intersecting inclusive date spans.
C1_NoDoubleBookingSequential == ~DoubleBooked

\* A second reservation was created over the dates of a cancelled one.
C1_Witness ==
    \E i \in DocIds, j \in ActiveIds :
        bookings[i].is_cancelled /\ Intersect(bookings[i], bookings[j])

\* C2: the write of a create_booking request does not look at the store again:
\* whenever two requests are both past their conflict check, both writes go
\* through and both bookings are stored non-cancelled, whatever their dates
\* (a request whose start has meanwhile become a past day fails in
\* Booking.validate instead).
C2_BothWritesCommit ==
    \A t \in Threads, u \in Threads :
        (t # u /\ pending[t] # NoReq /\ pending[u] # NoReq
            /\ pending[t].start_date.day >= today /\ pending[u].start_date.day >= today)
        =>
        LET first == api_create_write(bookings, today, pending[t])
            second == api_create_write(first.store, today, pending[u])
            n == Len(bookings)
        IN  /\ first.status = 201 /\ second.status = 201
            /\ Len(second.store) = n + 2
            /\ ~second.store[n + 1].is_cancelled /\ ~second.store[n + 2].is_cancelled
            /\ second.store[n + 1].start_date = pending[t].start_date
            /\ second.store[n + 1].end_date = pending[t].end_date
            /\ second.store[n + 2].start_date = pending[u].start_date
            /\ second.store[n + 2].end_date = pending[u].end_date

\* The double booking: two non-cancelled reservations with intersecting spans.
C2_Witness == DoubleBooked /\ last.op = "create" /\ last.status = 201

\* C3: for every candidate range, passed as the ISO strings the service passes,
\* get_conflicting_bookings returns exactly the non-cancelled reservations that
\* intersect it, and overlaps_with answers the same for two non-cancelled
\* bookings in either order.
C3_ConflictsAreTheIntersecting ==
    /\ \A r \in Ranges :
          LET got == get_conflicting_bookings(bookings, Str(r[1]), Str(r[2]), NoId) IN
            /\ got.exc = "none"
            /\ {got.val[k].id : k \in 1 .. Len(got.val)} = Intersecting(r[1], r[2])
    /\ \A i \in ActiveIds, j \in ActiveIds :
          LET a == from_dict(bookings[i]).val
              b == from_dict(bookings[j]).val
          IN  /\ overlaps_with(a, b) = Intersect(bookings[i], bookings[j])
              /\ overlaps_with(a, b) = overlaps_with(b, a)

\* C4: a cancelled reservation is never reported as a conflict.  overlaps_with
\* is false when either booking is cancelled; get_conflicting_bookings, called
\* with strings or with dates and with or without an excluded id, returns no
\* cancelled reservation, and returns the empty list without an error when every
\* reservation it is asked about is cancelled.
C4_CancelledNeverConflicts ==
    /\ \A i \in DocIds, j \in DocIds :
          (bookings[i].is_cancelled \/ bookings[j].is_cancelled)
          => ~overlaps_with(from_dict(bookings[i]).val, from_dict(bookings[j]).val)
    /\ \A r \in Ranges, x \in {NoId} \cup DocIds :
          \A args \in {<<Str(r[1]), Str(r[2])>>, <<Date(r[1]), Date(r[2])>>} :
            LET got == get_conflicting_bookings(bookings, args[1], args[2], x) IN
              /\ got.exc = "none" => \A k \in 1 .. Len(got.val) : ~got.val[k].is_cancelled
              /\ (ActiveIds \ {x} = {}) => (got.exc = "none" /\ got.val = <<>>)

\* A cancelled reservation and a non-cancelled one whose spans intersect.
C4_Witness ==
    \E i \in DocIds, j \in ActiveIds :
        /\ bookings[i].is_cancelled /\ Intersect(bookings[i], bookings[j])
        /\ last.op = "create" /\ last.status = 201

\* C5: validate_date_range accepts exactly when start < end, start >= today
\* and end - start <= max_days, and otherwise raises for the first rule broken
\* in the order InvalidRange, PastDate, RangeTooLong.
InvalidRange == "End date must be after start date"
PastDate == "Start date cannot be in the past"
RangeTooLong == "Date range cannot exceed max_days days"
C5_ValidateDateRange ==
    (call.fn = "validate_date_range" /\ call.returned) =>
        LET s == call.start_date
            e == call.end_date
            m == call.max_days
        IN  /\ (call.result = "ok") <=> (s < e /\ s >= today /\ e - s <= m)
            /\ (call.result = InvalidRange) <=> (s >= e)
            /\ (call.result = PastDate) <=> (s < e /\ s < today)
            /\ (call.result = RangeTooLong) <=> (s < e /\ s >= today /\ e - s > m)

\* A start equal to today with a span of exactly the default max_days is accepted.
C5_Witness ==
    /\ call.fn = "validate_date_range" /\ call.returned /\ call.result = "ok"
    /\ call.start_date = today /\ today > 0
    /\ call.end_date - call.start_date = MAX_DAYS /\ call.max_days = MAX_DAYS

\* C6: updating a reservation's dates re-runs the conflict check on the new
\* range without the reservation itself: an update by the owner to a valid range
\* is rejected (error answer, nothing written) when the range intersects
\* another non-cancelled reservation, and is otherwise carried out, also when
\* the range intersects the reservation's own previous range.
C6_UpdateRechecksConflicts ==
    \A i \in DocIds, r \in Ranges :
        r[1] >= today =>
        LET data == [start_date |-> Str(r[1]), end_date |-> Str(r[2]), notes |-> AbsentNotes]
            got == api_update_booking(bookings, today, bookings[i].user_id, i, data, StoreTakesDates)
        IN  IF Intersecting(r[1], r[2]) \ {i} # {}
              THEN got.status # 200 /\ got.store = bookings
              ELSE /\ got.status = 200
                   /\ got.store[i].start_date.day = r[1]
                   /\ got.store[i].end_date.day = r[2]

\* C7: cancelling frees the dates.  When every stored reservation that
\* intersects a valid range has been cancelled (there is one, and none of them
\* is non-cancelled), a create_booking of a known user for that range succeeds.
C7_CancelFreesDates ==
    \A t \in Threads, r \in Ranges :
        (/\ r[1] >= today
         /\ Intersecting(r[1], r[2]) = {}
         /\ \E i \in DocIds :
               /\ bookings[i].is_cancelled
               /\ r[1] <= bookings[i].end_date.day /\ bookings[i].start_date.day <= r[2])
        =>
        LET c == api_create_check(bookings, users, today, UserOf(t), Str(r[1]), Str(r[2]), PyNone) IN
            /\ c.status = Passed
            /\ api_create_write(bookings, today, c.body).status = 201

\* C8: cancel_booking on an already-cancelled reservation answers 200 with the
\* reservation as stored and leaves the store as it was, and cancelling any
\* reservation twice gives the state that cancelling it once gives.
C8_CancelIsIdempotent ==
    \A i \in DocIds :
        LET r == api_cancel_booking(bookings, bookings[i].user_id, i)
            once == service_cancel_booking(bookings, i)
            twice == service_cancel_booking(once.store, i)
        IN  /\ bookings[i].is_cancelled =>
                  /\ r.status = 200 /\ r.store = bookings /\ r.body = to_dict(once.val)
                  /\ once.exc = "none" /\ once.store = bookings
                  /\ once.val.id = i
                  /\ \A f \in DOMAIN bookings[i] \ {"id"} :
                        to_dict(once.val)[f] = bookings[i][f]
            /\ twice.exc = "none" /\ twice.store = once.store /\ twice.val = once.val

\* The cancel endpoint answered 200 for a reservation that was cancelled already.
C8_Witness ==
    /\ last.op = "cancel" /\ last.status = 200 /\ ~last.changed
    /\ \E i \in DocIds : bookings[i].is_cancelled

\* C9: reservations are never removed.  Every step keeps every stored
\* document under its id, and a cancel or DELETE request that changes the store
\* sets the cancelled flag of one reservation and nothing else.
C9_NeverRemoved ==
    [][/\ Len(bookings') >= Len(bookings)
       /\ \A i \in DocIds : bookings'[i].id = bookings[i].id
       /\ (bookings' # bookings /\ last'.op \in {"cancel", "delete"}) =>
             \E id \in DocIds : bookings' = [bookings EXCEPT ![id].is_cancelled = TRUE]]_vars

\* The DELETE endpoint answered 200 and the reservation is stored, cancelled.
C9_Witness ==
    /\ last.op = "delete" /\ last.status = 200 /\ last.changed
    /\ \E i \in DocIds : bookings[i].is_cancelled

\* C10: a create_booking for a valid range that intersects reservations is
\* rejected with a ConflictError naming each of them (owner name and span)
\* once, in ascending order of start date.
C10_ConflictErrorNamesAll ==
    \A t \in Threads, r \in Ranges :
        (r[1] >= today /\ Intersecting(r[1], r[2]) # {}) =>
        LET c == create_booking_check(bookings, users, today, UserOf(t), Str(r[1]), Str(r[2]), PyNone)
            K == Intersecting(r[1], r[2])
        IN  /\ c.exc = "ConflictError"
            /\ Len(c.details) = Cardinality(K)
            /\ \A i \in K : \E k \in 1 .. Len(c.details) :
                  c.details[k] = [user_name |-> bookings[i].user_name,
                                  start_date |-> bookings[i].start_date.day,
                                  end_date |-> bookings[i].end_date.day]
            /\ \A k \in 1 .. Len(c.details) - 1 :
                  c.details[k].start_date <= c.details[k + 1].start_date

\* C11: every stored reservation has start < end and a span of at most 30
\* days, whatever create_booking and date-changing update requests were made
\* (also an update on a store that accepts date values), and the write of a
\* create_booking stores no reservation that starts before the day of the write.
DatesInvariant(store) ==
    \A i \in 1 .. Len(store) :
        /\ store[i].start_date.day < store[i].end_date.day
        /\ store[i].end_date.day - store[i].start_date.day <= MAX_DAYS
C11_StoredDatesValid ==
    /\ DatesInvariant(bookings)
    /\ \A t \in InFlight :
          LET w == api_create_write(bookings, today, pending[t]) IN
              /\ DatesInvariant(w.store)
              /\ w.status = 201 =>
                    /\ Len(w.store) = Len(bookings) + 1
                    /\ w.store[Len(w.store)].start_date.day >= today
    /\ \A id \in DocIds, data \in WideUpdates, takes \in BOOLEAN :
          DatesInvariant(api_update_booking(bookings, today, bookings[id].user_id,
                                            id, data, takes).store)

\* A reservation of the longest allowed span has been created.
C11_Witness ==
    /\ last.op = "create" /\ last.status = 201
    /\ \E i \in DocIds :
          bookings[i].end_date.day - bookings[i].start_date.day = MAX_DAYS

\* C12: a create_booking call that fails writes nothing.  Whatever the user id
\* (of a stored user, of no stored user, or empty), the two dates (an ISO date,
\* None, '', a string that is no date, a date object; out of order, in the
\* past, too far apart, or meeting a stored reservation, whose comparison makes
\* the conflict query fail) and the notes, a call of BookingService.create_booking
\* that raises leaves the bookings collection as it was; the last such call that
\* raised changed nothing; and the same holds of the endpoint: a request refused
\* at its write leaves the collection as it was, and the last create request
\* answered with an error changed nothing.
C12_FailedCreateWritesNothing ==
    /\ \A u \in ServiceUsers, sd \in ServiceDates, ed \in ServiceDates, notes \in CreateNotes :
          LET r == create_booking(bookings, users, today, u, sd, ed, notes) IN
              r.exc # "none" => r.store = bookings /\ r.val = NoId
    /\ (last.op = "create_booking" /\ last.result # "none") => ~last.changed
    /\ \A t \in InFlight :
          LET w == api_create_write(bookings, today, pending[t]) IN
              w.status # 201 => w.store = bookings
    /\ (last.op = "create" /\ last.status # 201) => ~last.changed

\* A call of create_booking has just failed on the conflict query while a
\* reservation is stored, and in this state a call fails as well for a missing
\* start date, a missing end date, a malformed date, an end date not after the
\* start, a start in the past, too long a stay, and a user without a document,
\* inside or outside the ids of the collection.
C12_Witness ==
    /\ last.op = "create_booking" /\ last.result = "Exception" /\ ~last.changed
    /\ bookings # <<>>
    /\ today = 1
    /\ \E sd \in ServiceDates, ed \in ServiceDates :
          create_booking(bookings, users, today, "u1", sd, ed, PyNone).msg
              = "Failed to check booking availability"
    /\ create_booking(bookings, users, today, "u1", NoStr, Str(2), PyNone).msg
          = "Start date is required"
    /\ create_booking(bookings, users, today, "u1", Str(1), EmptyStr, PyNone).msg
          = "End date is required"
    /\ create_booking(bookings, users, today, "u1", BadStr, Str(2), PyNone).msg
          = "Invalid date format. Use YYYY-MM-DD"
    /\ create_booking(bookings, users, today, "u1", Str(1), Str(1), PyNone).msg
          = "End date must be after start date"
    /\ create_booking(bookings, users, today, "u1", Str(0), Str(1), PyNone).msg
          = "Cannot create bookings for past dates"
    /\ create_booking(bookings, users, today, "u1", Str(1), Str(MAX_DAYS + 2), PyNone).msg
          = "Booking duration cannot exceed 30 days"
    /\ create_booking(bookings, users, today, "v1", Str(1), Str(2), PyNone).msg
          = "Failed to validate user"
    /\ create_booking(bookings, users, today, UnknownUser, Str(1), Str(2), PyNone).msg
          = "Failed to validate user"
    /\ create_booking(bookings, users, today, "", Str(1), Str(2), PyNone).msg
          = "User ID is required"

\* The user a login of firebase uid u finds, and whether it has a current device.
UserOfUid(u) == get_by_firebase_uid(users, u)
Bound(u) == UserOfUid(u) # NoUser /\ UserOfUid(u).current_device # NoDevice
IsPrefix(h, g) == Len(h) <= Len(g) /\ \A i \in 1 .. Len(h) : g[i] = h[i]

\* C13: verify_device answers true for a user without a current device, true
\* for the id of the bound current device, and false for any other id when a
\* current device is bound.
C13_VerifyDevice ==
    \A i \in UserDocIds, d \in DeviceIds \cup {"d0"} :
        users[i] # NoUser =>
        LET user == User_from_dict(users[i]) IN
            verify_device(user, d) =
                (user.current_device = NoDevice \/ d = user.current_device.device_id)

\* Some user has a current device and some user has been created and has none.
C13_Witness ==
    /\ \E u \in Users : Bound(u)
    /\ \E i \in UserDocIds : users[i] # NoUser /\ users[i].current_device = NoDevice

\* C14: with logins handled one at a time, a login of a user who has a current
\* device is answered 200 only for that device's id; for any other id it is
\* answered 403 and the users collection is left as it was.
C14_OnlyBoundDeviceLogsIn ==
    /\ \A u \in Users, d \in DeviceIds : \A id \in DocIdsOf(u) :
          Bound(u) =>
          LET r == api_login(users, u, d, clock, id) IN
              IF d = UserOfUid(u).current_device.device_id
                THEN r.status = 200
                ELSE /\ r.status = 403
                     /\ r.store = users
    /\ (last.op = "login" /\ last.status = 403) => ~last.changed

\* A login from another device than the bound one was answered 403.
C14_Witness ==
    /\ last.op = "login" /\ last.status = 403
    /\ \E u \in Users : Bound(u)

\* C15: an authorized login moves the previous current device, unmodified, to
\* the end of the history and makes the presented device current; with no
\* previous current device the history stays as it was.
C15_BindMovesCurrentToHistory ==
    \A u \in Users, d \in DeviceIds : \A id \in DocIdsOf(u) :
        LET r == api_login(users, u, d, clock, id)
            before == UserOfUid(u)
            after == get_by_firebase_uid(r.store, u)
        IN  r.status = 200 =>
              /\ after.current_device.device_id = d
              /\ after.device_history =
                    IF before.current_device # NoDevice
                      THEN Append(before.device_history, before.current_device)
                      ELSE before.device_history

\* C16: with logins handled one at a time, every step leaves each user's
\* device history a prefix of what it becomes.
C16_HistoryOnlyGrows ==
    [][\A i \in UserDocIds : IsPrefix(users[i].device_history, users'[i].device_history)]_vars

\* A history of two entries, after a login answered 200.
C16_Witness ==
    /\ last.op = "login" /\ last.status = 200
    /\ \E i \in UserDocIds : Len(users[i].device_history) >= 2

\* C17: the device check and the binding are not atomic.  A login that passed
\* the check is never checked again: once update_user_device has read the
\* user, its write makes the presented device current and stores the history
\* it read plus that device, whatever was written in between.
C17_LoginCheckThenAct ==
    \A t \in Threads :
        logins[t].pc \in {"read", "stamped"} =>
        LET now == IF logins[t].pc = "stamped" THEN logins[t].now ELSE clock
            after == update_user_device_write(users, logins[t].user, logins[t].device_id, now)
            u == logins[t].user.id
        IN  /\ after[u].current_device.device_id = logins[t].device_id
            /\ Len(after[u].device_history) = Len(logins[t].user.device_history) + 1
            /\ IsPrefix(logins[t].user.device_history, after[u].device_history)

\* Two logins of one user from two devices passed the check while no device
\* was bound; one was answered 200 and its device is stored, and the other
\* read the user before that write, took its time stamp after it and is about
\* to write its own list.
C17_Witness ==
    /\ last.op = "login" /\ last.status = 200
    /\ \E t \in Threads :
          LET u == logins[t].user.id IN
              /\ logins[t].pc = "stamped"
              /\ logins[t].now > users[u].current_device.last_login
              /\ logins[t].user.current_device = NoDevice
              /\ logins[t].user.device_history = <<>>
              /\ users[u].current_device # NoDevice
              /\ users[u].current_device.device_id # logins[t].device_id
              /\ Len(users[u].device_history) = 1

\* C18: a device reset by a user with a bound device is answered 200, and a
\* login of that user from another device is then authorized.
C18_ResetClearsRestriction ==
    \A u \in Users, d \in DeviceIds : \A id \in DocIdsOf(u) :
        (Bound(u) /\ d # UserOfUid(u).current_device.device_id) =>
        LET r == api_reset_device(users, UserOfUid(u).id) IN
            /\ r.status = 200
            /\ api_login(r.store, u, d, clock, id).status = 200

\* What the notes of an entry count for: their length once trimmed.
LongEnough(entry) == Len(strip(entry.notes)) >= 5
EntriesOf(photos, c) == {i \in 1 .. Len(photos) : photos[i].photo_type = c}
RequiredSet == {REQUIRED_CATEGORIES[k] : k \in 1 .. Len(REQUIRED_CATEGORIES)}

\* C19: on a non-empty list validate succeeds exactly when each of
\* refrigerator, freezer and closet has an entry and every entry of those
\* categories has notes of at least 5 characters once trimmed; when it fails,
\* the error names a required category that is missing or has short notes;
\* entries of the general category do not enter the condition; the empty list
\* is valid.
C19_ChecklistValidate ==
    (call.fn = "ExitChecklist.validate" /\ call.returned) =>
    LET photos == call.photos
        complete == \A c \in RequiredSet :
                        /\ EntriesOf(photos, c) # {}
                        /\ \A i \in EntriesOf(photos, c) : LongEnough(photos[i])
    IN  IF photos = <<>> THEN call.result = Valid
        ELSE /\ (call.result.exc = "none") = complete
             /\ call.result.exc # "none" =>
                   /\ call.result.exc = "ValueError"
                   /\ call.result.category \in RequiredSet
                   /\ \/ EntriesOf(photos, call.result.category) = {}
                      \/ \E i \in EntriesOf(photos, call.result.category) : ~LongEnough(photos[i])

\* validate accepted a list that holds the three required categories and a
\* general entry with blank notes.
C19_Witness ==
    /\ call.fn = "ExitChecklist.validate" /\ call.returned
    /\ call.result = Valid
    /\ Len(call.photos) = MaxEntries
    /\ \E i \in 1 .. Len(call.photos) :
          call.photos[i].photo_type = "general" /\ call.photos[i].notes = Blank

\* C20: every checklist whose completion flag is set has, for each of
\* refrigerator, freezer and closet, an entry with notes of at least 5
\* characters.
C20_CompleteMeansValidated ==
    \A id \in 1 .. Len(checklists) :
        checklists[id].is_complete =>
        \A c \in RequiredSet :
            \E i \in EntriesOf(checklists[id].photos, c) : LongEnough(checklists[id].photos[i])

\* C21: once a checklist is complete with a submission timestamp, no step
\* (adding an entry, updating the important notes, submitting again, or any
\* other) leaves it incomplete.
C21_SubmissionOneWay ==
    [][\A id \in 1 .. Len(checklists) :
          (checklists[id].is_complete /\ checklists[id].submitted_at # NoTime) =>
          /\ id \in 1 .. Len(checklists')
          /\ checklists'[id].is_complete]_vars

\* A fourth entry was added to a checklist that had been submitted with an
\* entry for each required category, and its important notes were updated.
C21_Witness ==
    /\ last.op = "add_entry_to_checklist" /\ last.status = 200
    /\ \E id \in 1 .. Len(checklists) :
          /\ checklists[id].is_complete
          /\ checklists[id].submitted_at # NoTime
          /\ checklists[id].important_notes # NoNotes
          /\ Len(checklists[id].photos) = 4
          /\ \A k \in 1 .. 3 : checklists[id].photos[k].photo_type = REQUIRED_CATEGORIES[k]

\* C22: a submit_checklist that fails validation raises and writes nothing:
\* the checklists and the bookings are as before, so an incomplete checklist
\* stays incomplete with no submission timestamp and the booking it names
\* keeps its checklist-completed flag and its linked checklist id.
C22_FailedSubmitWritesNothing ==
    /\ \A id \in 1 .. Len(checklists) :
          LET r == submit_checklist(checklists, bookings, id, clock) IN
          ExitChecklist_validate(ExitChecklist_from_dict(checklists[id]).photos).exc # "none" =>
              /\ r.result = "ValueError"
              /\ r.store = checklists
              /\ r.bookings = bookings
    /\ \A id \in 1 .. Len(checklists) :
          ~checklists[id].is_complete => checklists[id].submitted_at = NoTime
    /\ (last.op = "submit_checklist" /\ last.result = "ValueError") => ~last.changed

\* A submission failed for an incomplete checklist that names a booking; the
\* booking is not marked.
C22_Witness ==
    /\ last.op = "submit_checklist" /\ last.result = "ValueError"
    /\ \E id \in 1 .. Len(checklists) :
          /\ ~checklists[id].is_complete
          /\ checklists[id].submitted_at = NoTime
          /\ checklists[id].booking_id # NoId
          /\ ~bookings[checklists[id].booking_id].exit_checklist_completed
          /\ bookings[checklists[id].booking_id].exit_checklist_id = NoId

\* The bookings a scan on day now owes an immediate reminder.
Range(seq) == {seq[i] : i \in 1 .. Len(seq)}
Due(store, now) ==
    {b \in 1 .. Len(store) : /\ ~store[b].is_cancelled
                             /\ store[b].end_date = Str(now)
                             /\ ~store[b].exit_checklist_completed}

\* C23: a run of the reminder scan sends an immediate reminder for exactly the
\* bookings that are not cancelled, end today and have no completed checklist,
\* once for each.
C23_ScanRemindsExactlyDue ==
    scan.loop # 0 =>
        /\ Range(scan.sent) = Due(bookings, today)
        /\ Len(scan.sent) = Cardinality(Due(bookings, today))

C25_MalformedSkipped ==
    (scan.loop # 0 /\ scan.error \notin ReadOutcomes \ {"ok"}) =>
        /\ scan.error = "none"
        /\ {b \in Due(bookings, today) : bookings[b].end_date # BadStr} \subseteq Range(scan.sent)

\* C26: a loop thread returns only from its while test, with the scheduler
\* stopped; and a thread whose scan met an error, asleep after it, runs
\* another scan unless the scheduler is stopped.
C26_LoopSurvivesError ==
    /\ [][\A l \in 1 .. Len(loops) :
             (loops'[l].pc = "done" /\ loops[l].pc # "done") =>
             (loops[l].pc = "check" /\ ~running)]_vars
    /\ \A l \in LoopIds :
          (l \in 1 .. Len(loops) /\ scan.loop = l /\ scan.error # "none" /\ loops[l].pc = "sleep")
          ~> (~running \/ (l \in 1 .. Len(loops) /\ loops[l].pc = "scan"))

\* The thread whose scan failed to read the bookings is about to scan again.
C26_Witness ==
    /\ scan.loop # 0
    /\ scan.error = "ServiceUnavailable"
    /\ running
    /\ loops[scan.loop].pc = "scan"

\* C27: once stop() has cleared the flag, no loop thread is still in its
\* sleep between scans.
C27_StopEndsLoop ==
    ~running => \A l \in 1 .. Len(loops) : loops[l].pc # "sleep"

\* C28: send_exit_reminder raises nothing and returns False when the user
\* lookup fails, when the real-time broadcast raises, or when the push send
\* fails and nothing else delivered; the scheduler's _send_exit_reminder
\* returns as well, so the scan's loop goes on.
C28_SendFailureNotPropagated ==
    (call.fn = "send_exit_reminder" /\ call.returned) =>
        /\ call.result.exc = "none"
        /\ (\/ call.lookup.exc # "none"
            \/ call.realtime = "Exception"
            \/ (call.send # "sent" /\ call.realtime # "True")) => call.result.val = FALSE
        /\ call.scheduler.exc = "none"

\* The push send raised for a user with a token, and the call returned False.
C28_Witness ==
    /\ call.fn = "send_exit_reminder" /\ call.returned
    /\ call.lookup.exc = "none" /\ call.lookup.val.fcm_token
    /\ call.send = "Exception"
    /\ call.realtime = "none"
    /\ call.result = Ok(FALSE)

\* C29: a maintenance request is created pending, and a create, assign,
\* complete or reopen call changes its status only from pending to
\* in_progress, from in_progress to completed and from completed to pending.
StatusTransitions ==
    {<<"pending", "in_progress">>, <<"in_progress", "completed">>, <<"completed", "pending">>}
C29_StatusTransitions ==
    [][last'.op # "update_maintenance_request" =>
       \A id \in 1 .. Len(maintenance') :
          IF id \in 1 .. Len(maintenance)
            THEN \/ maintenance'[id].status = maintenance[id].status
                 \/ <<maintenance[id].status, maintenance'[id].status>> \in StatusTransitions
            ELSE maintenance'[id].status = "pending"]_vars

\* C30: at most one loop thread is inside a scan iteration at any time.
C30_OneLoop ==
    Cardinality({l \in 1 .. Len(loops) : loops[l].pc = "scan"}) <= 1

====
